---- MODULE Spec2Model ----
(***************************************************************************)
(* State-machine model of the game contracts of this repository:           *)
(*   card-rpg  (contracts/card-rpg/src/lib.rs, DeadMansDrawContract)       *)
(*   pocker    (contracts/pocker/src/lib.rs,   PockerContract)             *)
(* Every contract entry point is one action.  A call that fails (an Err    *)
(* return or a panic_with_error!) is rolled back by the host, so a failed  *)
(* call changes nothing but `ret`, the outcome of the last call.           *)
(* A behaviour follows one deployed contract, named by `contract`.         *)
(***************************************************************************)
EXTENDS Integers, Sequences, FiniteSets, TLC

VARIABLES
    contract,     \* which deployed contract this behaviour is about
    cardStore,    \* card-rpg temporary storage: session_id -> GameState
    pokerStore,   \* pocker temporary storage:   session_id -> Game
    pokerVk,      \* pocker instance storage: the verification key, if set
    istlStore,    \* interstellar temporary storage: session_id -> Game
    istlVks,      \* interstellar instance storage: the four verification keys
    hub,          \* calls received by the Game Hub, in order
    ret           \* the last call: entry point and result ("Ok" or the error)

vars == <<contract, cardStore, pokerStore, pokerVk, istlStore, istlVks, hub, ret>>

(***************************************************************************)
(* Bounds of the model                                                     *)
(***************************************************************************)
MaxEntropyLen == 3     \* cap on the length of shared_seed, in bytes
MaxTurnCards == 1      \* cap on the cards drawn within one turn
MaxTurns == 6          \* cap on turn_number
MaxAmount == 2         \* largest Bet / Raise amount and buy-in
MaxActions == 3        \* cap on actions_this_round
MaxHubCalls == 3       \* cap on the hub calls of one behaviour

SessionIds == {1}
Addresses == {"alice", "bob", "carol"}
StartPlayers == {"alice", "bob"}
ByteVals == {0, 2}
DeckRoots == {<<1>>}

\* the seeds a player may commit to and reveal
Seeds == {<<b>> : b \in ByteVals}

(***************************************************************************)
(* Option<T>                                                               *)
(***************************************************************************)
NoneBytes == [is_some |-> FALSE, v |-> <<>>]
NoneAddr == [is_some |-> FALSE, v |-> ""]
NoneU32 == [is_some |-> FALSE, v |-> 0]
Some(x) == [is_some |-> TRUE, v |-> x]

\* a Groth16 verification key and proof: each curve point by its number of
\* 32-byte coordinates (verifier.rs 13-30)
GoodVk == [alpha |-> 2, beta |-> 4, gamma |-> 4, delta |-> 4,
           ic |-> <<2, 2, 2, 2, 2, 2, 2>>]
ShortIcVk == [alpha |-> 2, beta |-> 4, gamma |-> 4, delta |-> 4,
              ic |-> <<2, 2, 2>>]
NoneVk == [is_some |-> FALSE, v |-> GoodVk]
\* interstellar: no verification key stored for any of the four circuits
NoVks == [shooting |-> NoneVk, damage |-> NoneVk, item |-> NoneVk, win |-> NoneVk]

(***************************************************************************)
(* The outcome of a call on one session record: the error code ("Ok" for   *)
(* success), the record to store, and the hub calls it made.               *)
(***************************************************************************)
Fail(state, e) == [err |-> e, st |-> state, hub |-> <<>>]
Done(state, calls) == [err |-> "Ok", st |-> state, hub |-> calls]
\* an outcome together with the value the call returns
Returned(r, v) == [err |-> r.err, st |-> r.st, hub |-> r.hub, val |-> v]

(***************************************************************************)
(* The Game Hub (GameHubClient): the calls it receives.                    *)
(***************************************************************************)
HubStart(session_id) ==
    [fn |-> "start_game", session_id |-> session_id, player1_won |-> FALSE]
HubEnd(session_id, player1_won) ==
    [fn |-> "end_game", session_id |-> session_id, player1_won |-> player1_won]

(***************************************************************************)
(* env.crypto().sha256: the SHA-256 digests (32 bytes) of the byte strings *)
(* over ByteVals of length at most 5.                                      *)
(***************************************************************************)
Sha256Table ==
    (<<>> :> <<227,176,196,66,152,252,28,20,154,251,244,200,153,111,185,36,39,174,65,228,100,155,147,76,164,149,153,27,120,82,184,85>>) @@
    (<<0>> :> <<110,52,11,156,255,179,122,152,156,165,68,230,187,120,10,44,120,144,29,63,179,55,56,118,133,17,163,6,23,175,160,29>>) @@
    (<<2>> :> <<219,193,180,201,0,255,228,141,87,91,93,165,198,56,4,1,37,246,93,176,254,62,36,73,75,118,234,152,100,87,217,134>>) @@
    (<<0, 0>> :> <<150,162,150,210,36,242,133,198,123,238,147,195,15,138,48,145,87,240,218,163,93,197,184,126,65,11,120,99,10,9,207,199>>) @@
    (<<0, 2>> :> <<252,240,166,199,0,221,19,226,116,182,251,168,222,234,141,217,178,110,78,237,222,52,149,113,124,172,132,8,201,197,23,127>>) @@
    (<<2, 0>> :> <<153,190,94,251,136,202,32,19,189,142,78,176,53,253,66,213,36,84,104,254,154,250,112,216,186,156,28,65,154,72,196,232>>) @@
    (<<2, 2>> :> <<80,207,247,44,142,85,5,70,214,97,236,35,84,49,136,143,178,249,247,186,218,64,193,112,32,212,127,108,204,17,122,174>>) @@
    (<<0, 0, 0>> :> <<112,158,128,200,132,135,162,65,30,30,228,223,185,242,42,134,20,146,210,12,71,101,21,12,12,121,74,189,112,248,20,124>>) @@
    (<<0, 0, 2>> :> <<101,210,122,72,223,239,64,109,184,245,244,55,66,59,250,95,156,131,215,123,252,18,248,161,75,140,227,237,229,137,47,181>>) @@
    (<<0, 2, 0>> :> <<219,188,112,37,232,158,185,177,236,158,142,44,122,45,182,134,157,187,80,251,162,27,243,116,200,101,41,220,49,28,237,233>>) @@
    (<<0, 2, 2>> :> <<101,253,225,60,241,228,234,66,6,194,147,8,38,87,3,118,132,238,69,110,64,4,28,129,101,9,182,62,27,137,211,135>>) @@
    (<<2, 0, 0>> :> <<7,11,19,192,4,233,71,95,161,85,205,132,217,13,233,248,125,177,183,222,166,112,115,41,99,138,108,230,96,67,210,70>>) @@
    (<<2, 0, 2>> :> <<104,194,69,31,209,110,89,104,173,49,152,251,158,104,139,149,141,112,65,106,89,206,254,88,173,81,73,211,250,236,215,80>>) @@
    (<<2, 2, 0>> :> <<19,135,147,19,157,65,65,72,195,234,64,111,75,39,59,223,179,148,209,127,171,54,54,17,88,21,171,223,99,157,67,61>>) @@
    (<<2, 2, 2>> :> <<151,11,236,116,131,152,71,40,228,19,160,255,101,152,99,16,244,187,232,255,245,240,44,88,230,6,72,86,38,45,132,118>>) @@
    (<<0, 0, 0, 0>> :> <<223,63,97,152,4,169,47,219,64,87,25,45,196,61,215,72,234,119,138,220,82,188,73,140,232,5,36,192,20,184,17,25>>) @@
    (<<0, 0, 0, 2>> :> <<67,62,191,91,192,61,255,163,133,54,103,50,7,162,18,129,97,44,239,95,170,155,199,164,213,185,190,47,219,18,207,26>>) @@
    (<<0, 0, 2, 0>> :> <<49,53,136,174,54,178,52,152,192,114,184,113,143,154,54,20,217,229,43,68,76,220,234,116,236,212,156,147,4,71,65,179>>) @@
    (<<0, 0, 2, 2>> :> <<220,193,133,201,17,157,142,215,31,202,90,64,44,67,83,32,43,173,127,25,73,51,114,5,60,246,139,248,197,24,99,80>>) @@
    (<<0, 2, 0, 0>> :> <<188,56,23,193,59,196,230,241,146,168,64,137,95,169,55,210,82,219,21,62,251,137,187,20,166,194,221,241,249,197,84,9>>) @@
    (<<0, 2, 0, 2>> :> <<187,200,243,242,109,210,53,76,151,107,21,196,104,97,211,242,155,167,229,58,125,207,220,54,0,77,149,98,213,236,127,12>>) @@
    (<<0, 2, 2, 0>> :> <<246,76,79,71,239,211,52,228,239,118,157,23,27,106,123,99,101,100,171,126,172,14,128,130,209,169,56,236,209,134,101,177>>) @@
    (<<0, 2, 2, 2>> :> <<126,134,210,239,128,26,64,93,248,98,96,165,53,114,74,190,163,241,34,143,178,219,6,74,37,49,89,14,40,30,42,148>>) @@
    (<<2, 0, 0, 0>> :> <<38,178,93,69,117,151,167,176,70,63,150,32,246,102,221,16,170,44,67,115,165,5,150,124,124,141,112,146,42,45,110,206>>) @@
    (<<2, 0, 0, 2>> :> <<220,92,196,57,194,227,69,191,49,21,182,61,149,226,158,75,52,120,170,120,176,93,178,12,63,253,29,13,203,204,217,5>>) @@
    (<<2, 0, 2, 0>> :> <<170,87,173,54,103,217,15,59,54,216,158,244,142,8,20,33,201,84,155,139,28,48,110,27,217,52,232,149,103,127,127,110>>) @@
    (<<2, 0, 2, 2>> :> <<122,156,57,160,95,184,239,207,52,84,50,100,58,224,224,131,166,192,186,15,181,236,231,191,186,30,253,170,137,160,211,154>>) @@
    (<<2, 2, 0, 0>> :> <<90,62,128,163,121,21,177,96,28,54,58,205,22,1,223,126,242,87,213,211,44,102,64,4,162,236,4,132,164,246,6,40>>) @@
    (<<2, 2, 0, 2>> :> <<95,231,183,79,18,110,57,246,148,51,165,35,127,112,127,108,201,55,197,216,101,72,80,133,219,98,82,195,97,120,166,251>>) @@
    (<<2, 2, 2, 0>> :> <<251,59,153,41,207,19,181,177,41,40,218,165,84,158,168,29,133,129,128,16,204,59,249,74,236,2,169,46,149,201,177,101>>) @@
    (<<2, 2, 2, 2>> :> <<187,114,180,228,235,41,220,89,50,134,104,243,46,5,17,227,172,14,92,228,2,107,21,145,150,82,22,228,156,161,245,215>>) @@
    (<<0, 0, 0, 0, 0>> :> <<136,85,80,138,173,225,110,197,115,210,30,106,72,93,253,10,118,36,8,92,26,20,181,236,221,100,133,222,12,104,57,164>>) @@
    (<<0, 0, 0, 0, 2>> :> <<137,238,252,24,250,75,129,91,209,173,237,47,36,235,40,136,89,147,170,0,182,208,23,27,245,0,95,157,57,170,234,16>>) @@
    (<<0, 0, 0, 2, 0>> :> <<24,44,241,10,74,60,201,199,237,7,164,107,252,3,39,164,6,225,75,46,137,43,98,71,26,82,60,238,168,203,118,100>>) @@
    (<<0, 0, 0, 2, 2>> :> <<110,54,25,72,233,138,152,93,172,151,180,125,138,216,181,39,78,116,7,61,200,180,16,235,144,165,199,84,86,191,111,18>>) @@
    (<<0, 0, 2, 0, 0>> :> <<70,200,159,122,78,156,69,184,217,54,143,206,197,155,253,145,245,243,199,101,15,43,8,247,124,234,91,103,59,250,247,49>>) @@
    (<<0, 0, 2, 0, 2>> :> <<169,81,161,212,79,43,119,177,64,250,144,51,79,135,216,3,89,10,126,21,239,54,218,44,163,175,28,17,130,152,57,245>>) @@
    (<<0, 0, 2, 2, 0>> :> <<167,126,217,119,142,219,50,97,22,128,200,25,5,27,175,53,29,241,203,255,180,218,68,46,41,40,20,190,164,29,197,126>>) @@
    (<<0, 0, 2, 2, 2>> :> <<122,241,185,200,141,38,153,42,209,78,141,71,138,228,96,245,85,19,245,219,228,208,242,135,143,118,166,253,136,77,240,102>>) @@
    (<<0, 2, 0, 0, 0>> :> <<11,210,136,206,204,226,223,198,201,185,36,90,183,71,161,8,112,248,76,22,233,134,230,27,37,150,3,181,156,241,243,185>>) @@
    (<<0, 2, 0, 0, 2>> :> <<174,207,217,138,60,160,27,114,83,143,22,1,29,2,29,34,93,115,243,97,126,16,63,98,40,34,70,66,35,3,222,176>>) @@
    (<<0, 2, 0, 2, 0>> :> <<154,157,35,204,194,212,168,0,55,177,214,215,41,146,248,204,181,84,253,189,245,173,215,69,34,98,184,158,56,153,185,251>>) @@
    (<<0, 2, 0, 2, 2>> :> <<121,214,167,117,199,219,218,13,42,174,169,254,180,228,228,50,164,59,84,114,84,3,118,171,63,210,76,225,128,39,100,6>>) @@
    (<<0, 2, 2, 0, 0>> :> <<192,240,144,35,127,12,217,239,27,140,176,233,44,90,174,118,80,65,25,6,67,98,157,218,110,46,72,252,90,172,3,83>>) @@
    (<<0, 2, 2, 0, 2>> :> <<140,44,251,22,29,11,149,89,246,105,58,55,54,148,0,248,145,45,107,37,118,232,91,34,168,131,124,228,152,0,112,96>>) @@
    (<<0, 2, 2, 2, 0>> :> <<95,18,85,4,211,108,32,98,30,64,215,58,63,4,170,142,81,209,234,240,138,86,224,229,184,40,90,151,3,213,217,18>>) @@
    (<<0, 2, 2, 2, 2>> :> <<70,200,12,123,53,134,151,199,178,218,91,107,234,163,243,199,247,73,43,108,211,152,23,251,209,31,190,238,24,255,34,189>>) @@
    (<<2, 0, 0, 0, 0>> :> <<57,92,47,85,152,161,100,58,32,81,84,198,244,196,108,227,104,149,178,142,108,53,102,10,149,229,198,253,94,249,174,171>>) @@
    (<<2, 0, 0, 0, 2>> :> <<95,184,7,206,16,12,144,210,131,124,207,201,77,143,139,165,211,92,211,214,250,252,210,244,31,36,91,89,110,54,0,87>>) @@
    (<<2, 0, 0, 2, 0>> :> <<102,230,41,245,25,223,12,251,60,14,47,178,41,98,147,198,114,223,199,107,36,221,161,144,255,35,254,57,128,181,40,38>>) @@
    (<<2, 0, 0, 2, 2>> :> <<150,144,162,46,251,172,221,167,114,130,44,74,153,160,13,248,245,32,1,29,180,2,172,5,190,122,163,43,231,122,105,253>>) @@
    (<<2, 0, 2, 0, 0>> :> <<155,220,39,25,8,65,205,199,53,128,75,92,52,211,235,200,151,109,219,250,250,148,1,37,213,214,153,184,67,188,83,204>>) @@
    (<<2, 0, 2, 0, 2>> :> <<62,221,76,234,142,70,143,234,154,201,88,208,90,77,159,78,126,228,227,226,141,216,182,61,231,53,241,40,24,73,240,115>>) @@
    (<<2, 0, 2, 2, 0>> :> <<96,108,238,104,49,9,142,81,171,144,81,15,150,154,200,33,138,65,62,133,101,191,213,119,142,212,1,136,251,35,38,51>>) @@
    (<<2, 0, 2, 2, 2>> :> <<158,74,212,125,211,31,95,244,240,102,170,56,202,145,131,185,41,169,69,246,151,96,65,50,89,66,187,197,133,35,214,85>>) @@
    (<<2, 2, 0, 0, 0>> :> <<70,9,12,191,203,3,113,219,73,200,84,83,241,100,255,59,176,132,156,97,242,150,83,123,122,14,147,51,12,21,194,150>>) @@
    (<<2, 2, 0, 0, 2>> :> <<161,144,0,105,71,179,135,138,25,241,136,32,3,3,99,212,91,138,139,223,95,161,150,20,109,198,151,231,188,136,21,157>>) @@
    (<<2, 2, 0, 2, 0>> :> <<181,40,250,16,66,155,95,181,226,108,170,183,250,70,172,25,105,181,99,171,63,63,79,27,183,160,254,112,29,99,229,223>>) @@
    (<<2, 2, 0, 2, 2>> :> <<57,26,15,186,218,213,170,69,15,60,228,234,123,109,227,228,213,100,9,52,84,103,251,163,158,22,11,98,100,181,153,76>>) @@
    (<<2, 2, 2, 0, 0>> :> <<230,21,106,197,197,37,130,30,124,186,106,255,218,4,99,193,148,237,20,192,225,193,5,250,84,142,28,229,43,238,186,75>>) @@
    (<<2, 2, 2, 0, 2>> :> <<87,65,111,74,185,86,151,147,136,86,86,210,140,171,16,248,25,3,214,91,80,67,2,8,98,77,96,167,241,217,186,28>>) @@
    (<<2, 2, 2, 2, 0>> :> <<39,88,120,187,159,160,120,215,14,11,126,51,163,18,235,156,252,26,2,227,87,215,214,68,241,116,103,54,244,104,4,162>>) @@
    (<<2, 2, 2, 2, 2>> :> <<125,253,43,108,91,66,41,32,117,121,132,207,44,188,230,66,220,169,160,82,7,197,122,242,74,217,149,178,217,15,180,233>>)

Sha256(bytes) == Sha256Table[bytes]

\* The hash argument of commit: the digest of a seed, or bytes that are
\* the digest of no seed.
JunkCommitment == <<>>
Commitments == {Sha256(s) : s \in Seeds} \cup {JunkCommitment}

(***************************************************************************)
(* card-rpg                                                                *)
(***************************************************************************)
WIN_SCORE == 60
MAX_BUSTS == 3
DECK_SIZE == 40

CardIds == {9, 40}
SuitMasks == {1}
ProofLens == {0, 64}

from_id(card_id) ==
    IF card_id >= DECK_SIZE
    THEN [ok |-> FALSE, suit |-> 0, rank |-> 0]
    ELSE [ok |-> TRUE, suit |-> card_id \div 10, rank |-> (card_id % 10) + 1]

to_id_rank_from_zero(card) == card.suit * 10 + card.rank

to_id(card) == card.suit * 10 + (card.rank - 1)

value(card) == card.rank

card_new_game(session_id, player1, player2, p1_deck_root, p2_deck_root) ==
    [ session_id |-> session_id,
      player1 |-> player1,
      player2 |-> player2,
      p1_deck_root |-> p1_deck_root,
      p2_deck_root |-> p2_deck_root,
      p1_commit |-> NoneBytes,
      p2_commit |-> NoneBytes,
      p1_revealed |-> FALSE,
      p2_revealed |-> FALSE,
      shared_seed |-> <<>>,
      p1_score |-> 0,
      p2_score |-> 0,
      p1_busts |-> 0,
      p2_busts |-> 0,
      p1_cards_drawn |-> 0,
      p2_cards_drawn |-> 0,
      active_player |-> player1,
      turn_cards |-> <<>>,
      turn_suits_mask |-> 0,
      turn_score |-> 0,
      phase |-> "Commit",
      turn_number |-> 1 ]

\* start_game on a session id with no stored record
card_start_game(session_id, player1, player2, p1_deck_root, p2_deck_root) ==
    LET state == card_new_game(session_id, player1, player2,
                               p1_deck_root, p2_deck_root)
    IN  IF player1 = player2
        THEN Fail(state, "InvalidMove")
        ELSE Done(state, <<HubStart(session_id)>>)

\* mutant of commit: Reveal is entered as soon as one commitment is stored
commit_early_reveal(state, player, hash) ==
    IF state.phase # "Commit" THEN Fail(state, "NotInPhase")
    ELSE IF player # state.player1 /\ player # state.player2
    THEN Fail(state, "NotPlayer")
    ELSE LET s1 == IF player = state.player1
                   THEN [state EXCEPT !.p1_commit = Some(hash)]
                   ELSE [state EXCEPT !.p2_commit = Some(hash)]
         IN  IF s1.p1_commit.is_some \/ s1.p2_commit.is_some
             THEN Done([s1 EXCEPT !.phase = "Reveal"], <<>>)
             ELSE Done(s1, <<>>)

commit(state, player, hash) ==
    IF state.phase # "Commit" THEN Fail(state, "NotInPhase")
    ELSE IF player # state.player1 /\ player # state.player2
    THEN Fail(state, "NotPlayer")
    ELSE LET s1 == IF player = state.player1
                   THEN [state EXCEPT !.p1_commit = Some(hash)]
                   ELSE [state EXCEPT !.p2_commit = Some(hash)]
         IN  IF s1.p1_commit.is_some /\ s1.p2_commit.is_some
             THEN Done([s1 EXCEPT !.phase = "Reveal"], <<>>)
             ELSE Done(s1, <<>>)

\* mutant of starting_player: the parity of the first byte of the hash
starting_player_first_byte(state) ==
    LET final_hash == Sha256(state.shared_seed)
        first_byte == final_hash[1]
    IN  IF first_byte % 2 = 0 THEN state.player1 ELSE state.player2

\* the starting player, from the entropy buffer (lib.rs 296-304)
starting_player(state) ==
    LET final_hash == Sha256(state.shared_seed)
        last_byte == final_hash[32]
    IN  IF last_byte % 2 = 0 THEN state.player1 ELSE state.player2

\* reveal after the caller's revealed flag is set: append, then start play
reveal_append(state, seed) ==
    LET s1 == [state EXCEPT !.shared_seed = @ \o seed]
    IN  IF s1.p1_revealed /\ s1.p2_revealed
        THEN Done([s1 EXCEPT !.active_player = starting_player(s1),
                             !.phase = "Playing"], <<>>)
        ELSE Done(s1, <<>>)

\* mutant of reveal: the preimage is not compared with the commitment
reveal_unchecked(state, player, seed) ==
    IF state.phase # "Reveal" THEN Fail(state, "NotInPhase")
    ELSE IF player = state.player1
         THEN reveal_append([state EXCEPT !.p1_revealed = TRUE], seed)
         ELSE IF player = state.player2
         THEN reveal_append([state EXCEPT !.p2_revealed = TRUE], seed)
         ELSE Fail(state, "NotPlayer")

reveal(state, player, seed) ==
    IF state.phase # "Reveal" THEN Fail(state, "NotInPhase")
    ELSE LET seed_hash == Sha256(seed)
         IN  IF player = state.player1
             THEN IF ~state.p1_commit.is_some
                  THEN Fail(state, "InvalidCommitment")
                  ELSE IF seed_hash # state.p1_commit.v
                  THEN Fail(state, "InvalidCommitment")
                  ELSE reveal_append([state EXCEPT !.p1_revealed = TRUE], seed)
             ELSE IF player = state.player2
             THEN IF ~state.p2_commit.is_some
                  THEN Fail(state, "InvalidCommitment")
                  ELSE IF seed_hash # state.p2_commit.v
                  THEN Fail(state, "InvalidCommitment")
                  ELSE reveal_append([state EXCEPT !.p2_revealed = TRUE], seed)
             ELSE Fail(state, "NotPlayer")

switch_player_same_turn(state) ==
    [state EXCEPT !.active_player = IF state.active_player = state.player1
                                    THEN state.player2 ELSE state.player1]

switch_player(state) ==
    [state EXCEPT !.active_player = IF state.active_player = state.player1
                                    THEN state.player2 ELSE state.player1,
                  !.turn_number = @ + 1]

finalize_game_by_score(state) ==
    LET p1_won == IF state.p1_score >= WIN_SCORE THEN TRUE
                  ELSE IF state.p2_score >= WIN_SCORE THEN FALSE
                  ELSE state.p1_score > state.p2_score
    IN  Done([state EXCEPT !.phase = "Finished"],
             <<HubEnd(state.session_id, p1_won)>>)

finalize_game(state) ==
    LET p1_won == IF state.p1_score >= WIN_SCORE THEN TRUE
                  ELSE IF state.p2_score >= WIN_SCORE THEN FALSE
                  ELSE IF state.p2_busts >= MAX_BUSTS THEN TRUE
                  ELSE IF state.p1_busts >= MAX_BUSTS THEN FALSE
                  ELSE state.p1_score > state.p2_score
    IN  Done([state EXCEPT !.phase = "Finished"],
             <<HubEnd(state.session_id, p1_won)>>)

\* mutant of draw_card: a safe draw sets turn_score to the card's value
draw_card_score_replaced(state, caller, card_id, proof_len, is_bust, new_suits_mask) ==
    IF caller # state.active_player THEN Fail(state, "AuthFailed")
    ELSE IF state.phase # "Playing" THEN Fail(state, "NotInPhase")
    ELSE IF proof_len = 0 THEN Fail(state, "InvalidProof")
    ELSE IF ~from_id(card_id).ok THEN Fail(state, "InvalidCard")
    ELSE
    LET card == from_id(card_id)
        is_p1 == state.active_player = state.player1
        s1 == IF is_p1 THEN [state EXCEPT !.p1_cards_drawn = @ + 1]
                       ELSE [state EXCEPT !.p2_cards_drawn = @ + 1]
    IN  IF (IF is_p1 THEN s1.p1_cards_drawn ELSE s1.p2_cards_drawn) > DECK_SIZE
        THEN Fail(s1, "InvalidMove")
        ELSE IF is_bust
        THEN LET s2 == [s1 EXCEPT !.turn_cards = <<>>,
                                  !.turn_suits_mask = 0,
                                  !.turn_score = 0]
                 s3 == IF is_p1 THEN [s2 EXCEPT !.p1_busts = @ + 1]
                                ELSE [s2 EXCEPT !.p2_busts = @ + 1]
                 busts == IF is_p1 THEN s3.p1_busts ELSE s3.p2_busts
             IN  IF busts >= MAX_BUSTS
                 THEN finalize_game(s3)
                 ELSE Done(switch_player(s3), <<>>)
        ELSE Done([s1 EXCEPT !.turn_cards = Append(@, card_id),
                             !.turn_suits_mask = new_suits_mask,
                             !.turn_score = value(card)], <<>>)

\* a call that fails after the cards-drawn counter was counted up carries
\* the record as it was when the call failed; nothing of it is stored
draw_card(state, caller, card_id, proof_len, is_bust, new_suits_mask) ==
    IF caller # state.active_player THEN Fail(state, "AuthFailed")
    ELSE IF state.phase # "Playing" THEN Fail(state, "NotInPhase")
    ELSE IF proof_len = 0 THEN Fail(state, "InvalidProof")
    ELSE IF ~from_id(card_id).ok THEN Fail(state, "InvalidCard")
    ELSE
    LET card == from_id(card_id)
        is_p1 == state.active_player = state.player1
        s1 == IF is_p1 THEN [state EXCEPT !.p1_cards_drawn = @ + 1]
                       ELSE [state EXCEPT !.p2_cards_drawn = @ + 1]
    IN  IF (IF is_p1 THEN s1.p1_cards_drawn ELSE s1.p2_cards_drawn) > DECK_SIZE
        THEN Fail(s1, "InvalidMove")
        ELSE IF is_bust
        THEN LET s2 == [s1 EXCEPT !.turn_cards = <<>>,
                                  !.turn_suits_mask = 0,
                                  !.turn_score = 0]
                 s3 == IF is_p1 THEN [s2 EXCEPT !.p1_busts = @ + 1]
                                ELSE [s2 EXCEPT !.p2_busts = @ + 1]
                 busts == IF is_p1 THEN s3.p1_busts ELSE s3.p2_busts
             IN  IF busts >= MAX_BUSTS
                 THEN finalize_game(s3)
                 ELSE Done(switch_player(s3), <<>>)
        ELSE Done([s1 EXCEPT !.turn_cards = Append(@, card_id),
                             !.turn_suits_mask = new_suits_mask,
                             !.turn_score = @ + value(card)], <<>>)

\* mutant of bank_cards: no phase check
bank_cards_any_phase(state, caller) ==
    IF caller # state.active_player THEN Fail(state, "AuthFailed")
    ELSE
    LET s1 == IF state.active_player = state.player1
              THEN [state EXCEPT !.p1_score = @ + state.turn_score]
              ELSE [state EXCEPT !.p2_score = @ + state.turn_score]
        s2 == [s1 EXCEPT !.turn_cards = <<>>,
                         !.turn_suits_mask = 0,
                         !.turn_score = 0]
    IN  IF s2.p1_score >= WIN_SCORE \/ s2.p2_score >= WIN_SCORE
        THEN finalize_game(s2)
        ELSE Done(switch_player(s2), <<>>)

bank_cards_switches_on_win(state, caller) ==
    IF caller # state.active_player THEN Fail(state, "AuthFailed")
    ELSE IF state.phase # "Playing" THEN Fail(state, "NotInPhase")
    ELSE
    LET s1 == IF state.active_player = state.player1
              THEN [state EXCEPT !.p1_score = @ + state.turn_score]
              ELSE [state EXCEPT !.p2_score = @ + state.turn_score]
        s2 == [s1 EXCEPT !.turn_cards = <<>>,
                         !.turn_suits_mask = 0,
                         !.turn_score = 0]
    IN  IF s2.p1_score >= WIN_SCORE \/ s2.p2_score >= WIN_SCORE
        THEN finalize_game(switch_player(s2))
        ELSE Done(switch_player(s2), <<>>)

bank_cards(state, caller) ==
    IF caller # state.active_player THEN Fail(state, "AuthFailed")
    ELSE IF state.phase # "Playing" THEN Fail(state, "NotInPhase")
    ELSE
    LET s1 == IF state.active_player = state.player1
              THEN [state EXCEPT !.p1_score = @ + state.turn_score]
              ELSE [state EXCEPT !.p2_score = @ + state.turn_score]
        s2 == [s1 EXCEPT !.turn_cards = <<>>,
                         !.turn_suits_mask = 0,
                         !.turn_score = 0]
    IN  IF s2.p1_score >= WIN_SCORE \/ s2.p2_score >= WIN_SCORE
        THEN finalize_game(s2)
        ELSE Done(switch_player(s2), <<>>)

(***************************************************************************)
(* card-rpg entry points as actions                                        *)
(***************************************************************************)
NoRet == [fn |-> "none", err |-> "Ok"]

\* a call on the stored record of session sid, with outcome r
CardCall_keeps_failed(fn, sid, r) ==
    /\ contract = "card-rpg"
    /\ ret' = [fn |-> fn, err |-> r.err]
    /\ cardStore' = (sid :> r.st) @@ cardStore
    /\ hub' = IF r.err = "Ok" THEN hub \o r.hub ELSE hub
    /\ UNCHANGED <<contract, pokerStore, pokerVk, istlStore, istlVks>>

CardCall(fn, sid, r) ==
    /\ contract = "card-rpg"
    /\ ret' = [fn |-> fn, err |-> r.err]
    /\ cardStore' = IF r.err = "Ok" THEN (sid :> r.st) @@ cardStore ELSE cardStore
    /\ hub' = IF r.err = "Ok" THEN hub \o r.hub ELSE hub
    /\ UNCHANGED <<contract, pokerStore, pokerVk, istlStore, istlVks>>

\* a call on a session id with no stored record
CardNotFound(fn) ==
    /\ contract = "card-rpg"
    /\ ret' = [fn |-> fn, err |-> "GameNotFound"]
    /\ UNCHANGED <<contract, cardStore, pokerStore, pokerVk, hub, istlStore, istlVks>>

CardStartGame ==
    \E sid \in SessionIds, p1 \in {"alice"}, p2 \in StartPlayers,
       d1 \in DeckRoots, d2 \in DeckRoots :
        IF p1 # p2 /\ sid \in DOMAIN cardStore
        THEN CardCall("start_game", sid,
                      Fail(cardStore[sid], "InvalidMove"))
        ELSE CardCall("start_game", sid,
                      card_start_game(sid, p1, p2, d1, d2))

CardCommit ==
    \E sid \in SessionIds, player \in Addresses, hash \in Commitments :
        IF sid \in DOMAIN cardStore
        THEN CardCall("commit", sid,
                      commit(cardStore[sid], player, hash))
        ELSE CardNotFound("commit")

CardReveal ==
    \E sid \in SessionIds, player \in Addresses, seed \in Seeds :
        IF sid \in DOMAIN cardStore
        THEN /\ Len(cardStore[sid].shared_seed) + Len(seed) <= MaxEntropyLen
             /\ CardCall("reveal", sid,
                         reveal(cardStore[sid], player, seed))
        ELSE CardNotFound("reveal")

CardDrawCard ==
    \E sid \in SessionIds, caller \in Addresses, card_id \in CardIds,
       proof_len \in ProofLens, is_bust \in BOOLEAN, mask \in SuitMasks :
        IF sid \in DOMAIN cardStore
        THEN LET r == draw_card(cardStore[sid], caller, card_id, proof_len,
                               is_bust, mask)
             IN  /\ Len(r.st.turn_cards) <= MaxTurnCards
                 /\ r.st.turn_number <= MaxTurns
                 /\ CardCall("draw_card", sid, r)
        ELSE CardNotFound("draw_card")

CardBankCards ==
    \E sid \in SessionIds, caller \in Addresses :
        IF sid \in DOMAIN cardStore
        THEN LET r == bank_cards(cardStore[sid], caller)
             IN  /\ r.st.turn_number <= MaxTurns
                 /\ CardCall("bank_cards", sid, r)
        ELSE CardNotFound("bank_cards")

CardNext ==
    \/ CardStartGame
    \/ CardCommit
    \/ CardReveal
    \/ CardDrawCard
    \/ CardBankCards

CardInit ==
    /\ contract = "card-rpg"
    /\ cardStore = <<>>
    /\ pokerStore = <<>>
    /\ pokerVk = NoneVk
    /\ istlStore = <<>>
    /\ istlVks = NoVks
    /\ hub = <<>>
    /\ ret = NoRet

CardSpec == CardInit /\ [][CardNext]_vars

\* The end of a game: the record at turn 3, after start_game, both commits
\* and both reveals, when each player has had one turn.  A turn was a bank
\* of nothing, a bank of five safe draws of a rank-10 card, or a bust on
\* the last card of the deck after 39 safe draws.
FirstTurns ==
    {[score |-> 0, busts |-> 0, drawn |-> 0],
     [score |-> 50, busts |-> 0, drawn |-> 5],
     [score |-> 0, busts |-> 1, drawn |-> DECK_SIZE]}

PlayingGame ==
    LET g0 == card_new_game(1, "alice", "bob", <<1>>, <<1>>)
        g1 == commit(g0, "alice", Sha256(<<0>>)).st
        g2 == commit(g1, "bob", Sha256(<<2>>)).st
        g3 == reveal(g2, "alice", <<0>>).st
    IN  reveal(g3, "bob", <<2>>).st

EndgameState(t1, t2) ==
    [PlayingGame EXCEPT !.p1_score = t1.score,
                        !.p1_busts = t1.busts,
                        !.p1_cards_drawn = t1.drawn,
                        !.p2_score = t2.score,
                        !.p2_busts = t2.busts,
                        !.p2_cards_drawn = t2.drawn,
                        !.turn_number = 3]

EndgameInit ==
    /\ contract = "card-rpg"
    /\ \E t1 \in FirstTurns, t2 \in FirstTurns :
           cardStore = (1 :> EndgameState(t1, t2))
    /\ pokerStore = <<>>
    /\ pokerVk = NoneVk
    /\ istlStore = <<>>
    /\ istlVks = NoVks
    /\ hub = <<HubStart(1)>>
    /\ ret = NoRet

\* card-rpg from its constructed state and from the end of a game
CardGameInit == CardInit \/ EndgameInit

CardGameSpec == CardGameInit /\ [][CardNext]_vars

\* The last two turns of a game with up to MaxTurnLen cards drawn in a turn,
\* of ranks 1 and 10: a record in Playing at turn MaxTurns - 1, each player
\* at the start of a game, one bank short of WIN_SCORE, or one bust short of
\* MAX_BUSTS with the whole deck drawn.
MaxTurnLen == 3        \* cap on the cards drawn within one of these turns
TurnCardIds == {0, 9, 40}
LastTurns ==
    {[score |-> 0, busts |-> 0, drawn |-> 0],
     [score |-> 50, busts |-> 0, drawn |-> 5],
     [score |-> 0, busts |-> 2, drawn |-> DECK_SIZE - 1]}

TurnInit ==
    /\ contract = "card-rpg"
    /\ \E t1 \in LastTurns, t2 \in LastTurns :
           cardStore = (1 :> [EndgameState(t1, t2)
                                 EXCEPT !.turn_number = MaxTurns - 1])
    /\ pokerStore = <<>>
    /\ pokerVk = NoneVk
    /\ istlStore = <<>>
    /\ istlVks = NoVks
    /\ hub = <<HubStart(1)>>
    /\ ret = NoRet

TurnDrawCard ==
    \E sid \in SessionIds, caller \in Addresses, card_id \in TurnCardIds,
       proof_len \in ProofLens, is_bust \in BOOLEAN, mask \in SuitMasks :
        IF sid \in DOMAIN cardStore
        THEN LET r == draw_card(cardStore[sid], caller, card_id, proof_len,
                               is_bust, mask)
             IN  /\ Len(r.st.turn_cards) <= MaxTurnLen
                 /\ r.st.turn_number <= MaxTurns
                 /\ CardCall("draw_card", sid, r)
        ELSE CardNotFound("draw_card")

TurnNext == TurnDrawCard \/ CardBankCards

TurnSpec == TurnInit /\ [][TurnNext]_vars

\* Card::from_id and Card::to_id as functions of the card id
MaxCardId == 120       \* largest card id passed to from_id

CardIdEval ==
    \E card_id \in 0..MaxCardId :
        LET card == from_id(card_id)
        IN  /\ contract = "card-rpg"
            /\ ret' = [fn |-> "from_id",
                       err |-> IF card.ok THEN "Ok" ELSE "InvalidCard",
                       val |-> [card_id |-> card_id, card |-> card,
                                to_id |-> IF card.ok THEN to_id(card) ELSE 0]]
            /\ UNCHANGED <<contract, cardStore, pokerStore, pokerVk, hub,
                           istlStore, istlVks>>

CardIdSpec == CardInit /\ [][CardIdEval]_vars


(***************************************************************************)
(* pocker: Groth16 verifier (verifier.rs).  A curve point is modelled by   *)
(* its number of 32-byte coordinates: the code reads nothing else of it.   *)
(***************************************************************************)
negate_g1_point(point) ==
    IF point # 2 THEN [err |-> "InvalidPoint", point |-> point]
    ELSE [err |-> "Ok", point |-> point]

bn254_g1_mul(point, scalar) == point

bn254_g1_add(point1, point2) == point1

RECURSIVE contribution_loop(_, _, _, _)
contribution_loop(vk, public_inputs, i, result) ==
    IF i > Len(public_inputs) THEN result
    ELSE contribution_loop(vk, public_inputs, i + 1,
             bn254_g1_add(result, bn254_g1_mul(vk.ic[i + 1], public_inputs[i])))

\* vk_x = IC[0] + sum(public_inputs[i] * IC[i+1]); called with a checked length
compute_public_input_contribution(vk, public_inputs) ==
    contribution_loop(vk, public_inputs, 1, vk.ic[1])

bn254_pairing_check(inputs) ==
    IF Len(inputs) # 8 THEN [err |-> "InvalidPairingInputs", ok |-> FALSE]
    ELSE IF \E i \in 1..8 : inputs[i] # (IF (i - 1) % 2 = 0 THEN 2 ELSE 4)
    THEN [err |-> "InvalidPoint", ok |-> FALSE]
    ELSE [err |-> "Ok", ok |-> TRUE]

verify_groth16_key_first(vk, proof, public_inputs) ==
    IF vk.alpha # 2 THEN "InvalidVerificationKey"
    ELSE IF vk.beta # 4 \/ vk.gamma # 4 \/ vk.delta # 4
    THEN "InvalidVerificationKey"
    ELSE IF proof.pi_a # 2 THEN "InvalidProofStructure"
    ELSE IF proof.pi_b # 4 THEN "InvalidProofStructure"
    ELSE IF proof.pi_c # 2 THEN "InvalidProofStructure"
    ELSE IF Len(public_inputs) + 1 # Len(vk.ic) THEN "InvalidPublicInputs"
    ELSE
    LET vk_x == compute_public_input_contribution(vk, public_inputs)
        neg_alpha == negate_g1_point(vk.alpha)
        neg_vk_x == negate_g1_point(vk_x)
        neg_pi_c == negate_g1_point(proof.pi_c)
    IN  IF neg_alpha.err # "Ok" THEN neg_alpha.err
        ELSE IF neg_vk_x.err # "Ok" THEN neg_vk_x.err
        ELSE IF neg_pi_c.err # "Ok" THEN neg_pi_c.err
        ELSE
        LET pairing_result ==
                bn254_pairing_check(<< proof.pi_a, proof.pi_b,
                                       neg_alpha.point, vk.beta,
                                       neg_vk_x.point, vk.gamma,
                                       neg_pi_c.point, vk.delta >>)
        IN  IF pairing_result.err # "Ok" THEN pairing_result.err
            ELSE IF ~pairing_result.ok THEN "PairingCheckFailed"
            ELSE "Ok"

verify_groth16(vk, proof, public_inputs) ==
    IF proof.pi_a # 2 THEN "InvalidProofStructure"
    ELSE IF proof.pi_b # 4 THEN "InvalidProofStructure"
    ELSE IF proof.pi_c # 2 THEN "InvalidProofStructure"
    ELSE IF vk.alpha # 2 THEN "InvalidVerificationKey"
    ELSE IF vk.beta # 4 \/ vk.gamma # 4 \/ vk.delta # 4
    THEN "InvalidVerificationKey"
    ELSE IF Len(public_inputs) + 1 # Len(vk.ic) THEN "InvalidPublicInputs"
    ELSE
    LET vk_x == compute_public_input_contribution(vk, public_inputs)
        neg_alpha == negate_g1_point(vk.alpha)
        neg_vk_x == negate_g1_point(vk_x)
        neg_pi_c == negate_g1_point(proof.pi_c)
    IN  IF neg_alpha.err # "Ok" THEN neg_alpha.err
        ELSE IF neg_vk_x.err # "Ok" THEN neg_vk_x.err
        ELSE IF neg_pi_c.err # "Ok" THEN neg_pi_c.err
        ELSE
        LET pairing_result ==
                bn254_pairing_check(<< proof.pi_a, proof.pi_b,
                                       neg_alpha.point, vk.beta,
                                       neg_vk_x.point, vk.gamma,
                                       neg_pi_c.point, vk.delta >>)
        IN  IF pairing_result.err # "Ok" THEN pairing_result.err
            ELSE IF ~pairing_result.ok THEN "PairingCheckFailed"
            ELSE "Ok"

(***************************************************************************)
(* pocker (lib.rs)                                                         *)
(***************************************************************************)
PokerPhases == <<"Commit", "Preflop", "Flop", "Turn", "River", "Showdown",
                 "Complete">>

ActNone == [kind |-> "None", amount |-> 0]
ActFold == [kind |-> "Fold", amount |-> 0]
ActCheck == [kind |-> "Check", amount |-> 0]
ActCall == [kind |-> "Call", amount |-> 0]
ActBet(a) == [kind |-> "Bet", amount |-> a]
ActRaise(a) == [kind |-> "Raise", amount |-> a]
ActAllIn == [kind |-> "AllIn", amount |-> 0]

\* the dummy community commitment of start_game: 32 zero bytes
DummyCommunity == [i \in 1..32 |-> 0]

poker_new_game(player1, player2, player1_points, player2_points) ==
    [ player1 |-> player1,
      player2 |-> player2,
      player1_points |-> player1_points,
      player2_points |-> player2_points,
      player1_stack |-> player1_points,
      player2_stack |-> player2_points,
      player1_bet |-> 0,
      player2_bet |-> 0,
      pot |-> 0,
      player1_hole_commitment |-> NoneBytes,
      player2_hole_commitment |-> NoneBytes,
      community_cards |-> <<>>,
      community_commitment |-> Some(DummyCommunity),
      community_revealed |-> 0,
      current_actor |-> 0,
      last_action |-> ActNone,
      last_raise_amount |-> 0,
      actions_this_round |-> 0,
      player1_revealed |-> FALSE,
      player2_revealed |-> FALSE,
      player1_ranking |-> NoneU32,
      player2_ranking |-> NoneU32,
      winner |-> NoneAddr,
      phase |-> "Commit" ]

poker_start_game_self_play(session_id, player1, player2, player1_points, player2_points) ==
    Done(poker_new_game(player1, player2, player1_points, player2_points),
         <<HubStart(session_id)>>)

poker_start_game(session_id, player1, player2, player1_points, player2_points) ==
    LET game == poker_new_game(player1, player2, player1_points, player2_points)
    IN  IF player1 = player2
        THEN Fail(game, "NotPlayer")
        ELSE Done(game, <<HubStart(session_id)>>)

\* lib.rs 320-331: both commitments present moves the phase on
hole_commitments_done(game) ==
    IF game.player1_hole_commitment.is_some
       /\ game.player2_hole_commitment.is_some
    THEN Done([game EXCEPT !.phase = "Showdown"], <<>>)
    ELSE Done(game, <<>>)

\* mutant of submit_hole_commitment: a stored commitment is overwritten
submit_hole_commitment_overwrite(game, player, hole_commitment) ==
    IF game.phase # "Commit" THEN Fail(game, "NotInPhase")
    ELSE IF player = game.player1
    THEN hole_commitments_done(
             [game EXCEPT !.player1_hole_commitment = Some(hole_commitment)])
    ELSE IF player = game.player2
    THEN hole_commitments_done(
             [game EXCEPT !.player2_hole_commitment = Some(hole_commitment)])
    ELSE Fail(game, "NotPlayer")

submit_hole_commitment(game, player, hole_commitment) ==
    IF game.phase # "Commit" THEN Fail(game, "NotInPhase")
    ELSE IF player = game.player1
    THEN IF game.player1_hole_commitment.is_some
         THEN Fail(game, "AlreadyCommitted")
         ELSE hole_commitments_done(
                  [game EXCEPT !.player1_hole_commitment = Some(hole_commitment)])
    ELSE IF player = game.player2
    THEN IF game.player2_hole_commitment.is_some
         THEN Fail(game, "AlreadyCommitted")
         ELSE hole_commitments_done(
                  [game EXCEPT !.player2_hole_commitment = Some(hole_commitment)])
    ELSE Fail(game, "NotPlayer")

submit_community_commitment(game, community_commitment) ==
    IF game.phase = "Commit" THEN Fail(game, "NotInPhase")
    ELSE Done([game EXCEPT !.community_commitment = Some(community_commitment)],
              <<>>)

\* mutant of is_betting_round_complete: a Call does not close the round
is_betting_round_complete_call_open(game) ==
    IF game.last_action.kind = "Fold" THEN TRUE
    ELSE IF game.actions_this_round < 2 THEN FALSE
    ELSE IF game.player1_bet # game.player2_bet THEN FALSE
    ELSE IF game.player1_stack = 0 \/ game.player2_stack = 0 THEN TRUE
    ELSE CASE game.last_action.kind = "AllIn" -> TRUE
           [] game.last_action.kind = "Check" ->
                  game.player1_bet = 0 /\ game.player2_bet = 0
           [] OTHER -> FALSE

\* mutant of is_betting_round_complete: without the two-action floor
is_betting_round_complete_no_floor(game) ==
    IF game.last_action.kind = "Fold" THEN TRUE
    ELSE IF game.player1_bet # game.player2_bet THEN FALSE
    ELSE IF game.player1_stack = 0 \/ game.player2_stack = 0 THEN TRUE
    ELSE CASE game.last_action.kind \in {"Call", "AllIn"} -> TRUE
           [] game.last_action.kind = "Check" ->
                  game.player1_bet = 0 /\ game.player2_bet = 0
           [] OTHER -> FALSE

is_betting_round_complete(game) ==
    IF game.last_action.kind = "Fold" THEN TRUE
    ELSE IF game.actions_this_round < 2 THEN FALSE
    ELSE IF game.player1_bet # game.player2_bet THEN FALSE
    ELSE IF game.player1_stack = 0 \/ game.player2_stack = 0 THEN TRUE
    ELSE CASE game.last_action.kind \in {"Call", "AllIn"} -> TRUE
           [] game.last_action.kind = "Check" ->
                  game.player1_bet = 0 /\ game.player2_bet = 0
           [] game.last_action.kind \in {"Bet", "Raise"} -> FALSE
           [] OTHER -> FALSE

next_phase(phase) ==
    CASE phase = "Preflop" -> "Flop"
      [] phase = "Flop" -> "Turn"
      [] phase = "Turn" -> "River"
      [] phase = "River" -> "Showdown"
      [] OTHER -> phase

\* mutant of finish_action: a completed round leaves the turn where it was
finish_action_keeps_actor(game) ==
    LET g1 == [game EXCEPT !.actions_this_round = @ + 1]
    IN  IF is_betting_round_complete(g1)
        THEN Done([g1 EXCEPT !.phase = next_phase(g1.phase),
                             !.player1_bet = 0,
                             !.player2_bet = 0,
                             !.last_action = ActNone,
                             !.actions_this_round = 0], <<>>)
        ELSE Done([g1 EXCEPT !.current_actor = IF g1.current_actor = 0
                                               THEN 1 ELSE 0], <<>>)

\* player_action after the action itself was applied (lib.rs 536-567)
finish_action(game) ==
    LET g1 == [game EXCEPT !.actions_this_round = @ + 1]
    IN  IF is_betting_round_complete(g1)
        THEN Done([g1 EXCEPT !.phase = next_phase(g1.phase),
                             !.player1_bet = 0,
                             !.player2_bet = 0,
                             !.current_actor = 0,
                             !.last_action = ActNone,
                             !.actions_this_round = 0], <<>>)
        ELSE Done([g1 EXCEPT !.current_actor = IF g1.current_actor = 0
                                               THEN 1 ELSE 0], <<>>)

\* mutant of Max: the smaller of the two
Max_smaller(a, b) == IF a >= b THEN b ELSE a

Max(a, b) == IF a >= b THEN a ELSE b

\* the non-fold arms of the match on the action (lib.rs 449-534), for the
\* actor is_player1: the game after the action, before the action counter
action_effect(game, is_player1, action) ==
    LET player_stack == IF is_player1 THEN game.player1_stack
                        ELSE game.player2_stack
        player_bet == IF is_player1 THEN game.player1_bet ELSE game.player2_bet
        opponent_bet == IF is_player1 THEN game.player2_bet ELSE game.player1_bet
        \* move `cost` from the actor's stack to the pot, the bet becomes `bet`
        pay(cost, bet) ==
            IF is_player1
            THEN [game EXCEPT !.player1_stack = @ - cost,
                              !.player1_bet = bet,
                              !.pot = @ + cost]
            ELSE [game EXCEPT !.player2_stack = @ - cost,
                              !.player2_bet = bet,
                              !.pot = @ + cost]
    IN
    CASE action.kind = "Check" ->
            IF opponent_bet > player_bet THEN Fail(game, "NotInPhase")
            ELSE Done([game EXCEPT !.last_action = ActCheck], <<>>)
      [] action.kind = "Call" ->
            LET call_amount == opponent_bet - player_bet
            IN  IF call_amount > player_stack THEN Fail(game, "NotInPhase")
                ELSE Done([pay(call_amount, player_bet + call_amount)
                               EXCEPT !.last_action = ActCall], <<>>)
      [] action.kind = "Bet" ->
            IF opponent_bet > 0 \/ player_bet > 0 THEN Fail(game, "NotInPhase")
            ELSE IF action.amount > player_stack THEN Fail(game, "NotInPhase")
            ELSE Done([pay(action.amount, player_bet + action.amount)
                           EXCEPT !.last_raise_amount = action.amount,
                                  !.last_action = ActBet(action.amount)], <<>>)
      [] action.kind = "Raise" ->
            LET min_raise_total ==
                    opponent_bet + Max(game.last_raise_amount, opponent_bet)
                raise_amount == action.amount - player_bet
            IN  IF action.amount < min_raise_total
                   \/ action.amount > player_stack + player_bet
                THEN Fail(game, "NotInPhase")
                ELSE Done([pay(raise_amount, action.amount)
                         EXCEPT !.last_raise_amount = action.amount - opponent_bet,
                                !.last_action = ActRaise(action.amount)], <<>>)
      [] action.kind = "AllIn" ->
            Done([pay(player_stack, player_bet + player_stack)
                      EXCEPT !.last_action = ActAllIn], <<>>)
      [] OTHER -> Fail(game, "NotInPhase")

\* mutant of apply_action: a Fold records the winner and leaves the phase
apply_action_fold_keeps_phase(game, session_id, is_player1, action) ==
    IF action.kind = "Fold"
    THEN LET winner == IF is_player1 THEN game.player2 ELSE game.player1
         IN  Done([game EXCEPT !.winner = Some(winner)],
                  <<HubEnd(session_id, winner = game.player1)>>)
    ELSE LET e == action_effect(game, is_player1, action)
         IN  IF e.err # "Ok" THEN e ELSE finish_action(e.st)

\* mutant of apply_action: a Fold empties the pot
apply_action_fold_burns_pot(game, session_id, is_player1, action) ==
    IF action.kind = "Fold"
    THEN LET winner == IF is_player1 THEN game.player2 ELSE game.player1
         IN  Done([game EXCEPT !.winner = Some(winner),
                               !.pot = 0,
                               !.phase = "Complete"],
                  <<HubEnd(session_id, winner = game.player1)>>)
    ELSE LET e == action_effect(game, is_player1, action)
         IN  IF e.err # "Ok" THEN e ELSE finish_action(e.st)

\* the match on the action and what follows it (lib.rs 419-567)
apply_action(game, session_id, is_player1, action) ==
    IF action.kind = "Fold"
    THEN LET winner == IF is_player1 THEN game.player2 ELSE game.player1
         IN  Done([game EXCEPT !.winner = Some(winner),
                               !.phase = "Complete"],
                  <<HubEnd(session_id, winner = game.player1)>>)
    ELSE LET e == action_effect(game, is_player1, action)
         IN  IF e.err # "Ok" THEN e ELSE finish_action(e.st)

\* mutant of player_action: a Fold with nothing to call is rejected
player_action_no_free_fold(game, session_id, player, action) ==
    IF game.phase \notin {"Preflop", "Flop", "Turn", "River"}
    THEN Fail(game, "NotInPhase")
    ELSE IF player # game.player1 /\ player # game.player2
    THEN Fail(game, "NotPlayer")
    ELSE IF (IF player = game.player1 THEN 0 ELSE 1) # game.current_actor
    THEN Fail(game, "NotInPhase")
    ELSE IF action.kind = "Fold" /\ game.player1_bet = game.player2_bet
    THEN Fail(game, "NotInPhase")
    ELSE apply_action(game, session_id, player = game.player1, action)

\* mutant of player_action: an AllIn with an empty stack is rejected
player_action_allin_needs_chips(game, session_id, player, action) ==
    IF game.phase \notin {"Preflop", "Flop", "Turn", "River"}
    THEN Fail(game, "NotInPhase")
    ELSE IF player # game.player1 /\ player # game.player2
    THEN Fail(game, "NotPlayer")
    ELSE IF (IF player = game.player1 THEN 0 ELSE 1) # game.current_actor
    THEN Fail(game, "NotInPhase")
    ELSE IF action.kind = "AllIn"
            /\ (IF player = game.player1 THEN game.player1_stack
                ELSE game.player2_stack) = 0
    THEN Fail(game, "NotInPhase")
    ELSE apply_action(game, session_id, player = game.player1, action)

player_action(game, session_id, player, action) ==
    IF game.phase \notin {"Preflop", "Flop", "Turn", "River"}
    THEN Fail(game, "NotInPhase")
    ELSE IF player # game.player1 /\ player # game.player2
    THEN Fail(game, "NotPlayer")
    ELSE IF (IF player = game.player1 THEN 0 ELSE 1) # game.current_actor
    THEN Fail(game, "NotInPhase")
    ELSE apply_action(game, session_id, player = game.player1, action)

\* result = (result << 8) | byte over the first len bytes; the u32 shift
\* keeps the low 24 bits of result
RECURSIVE be_fold(_, _, _, _)
be_fold(bytes, i, len, result) ==
    IF i > len THEN result
    ELSE be_fold(bytes, i + 1, len, ((result % 16777216) * 256) + bytes[i])

bytes_to_u32(bytes) ==
    be_fold(bytes, 1, IF Len(bytes) < 4 THEN Len(bytes) ELSE 4, 0)

\* verify_groth16_proof: the stored key, then verify_groth16 (lib.rs 848-873)
verify_groth16_proof(vk, proof, public_signals) ==
    IF ~vk.is_some THEN "InvalidProof"
    ELSE IF verify_groth16(vk.v, proof, public_signals) # "Ok" THEN "InvalidProof"
    ELSE "Ok"

reveal_winner_verifies_first(game, session_id, vk, proof, public_signals) ==
    IF game.winner.is_some THEN Returned(Done(game, <<>>), game.winner.v)
    ELSE IF game.phase # "Showdown" THEN Fail(game, "NotInPhase")
    ELSE IF ~game.player1_hole_commitment.is_some
            \/ ~game.player2_hole_commitment.is_some
    THEN Fail(game, "NotCommitted")
    ELSE IF Len(public_signals) < 6 THEN Fail(game, "InvalidProof")
    ELSE IF verify_groth16_proof(vk, proof, public_signals) # "Ok"
    THEN Fail(game, "InvalidProof")
    ELSE IF public_signals[1] # game.player1_hole_commitment.v
    THEN Fail(game, "InvalidCommitment")
    ELSE IF public_signals[2] # game.player2_hole_commitment.v
    THEN Fail(game, "InvalidCommitment")
    ELSE IF ~game.community_commitment.is_some
    THEN Fail(game, "InvalidCommitment")
    ELSE IF public_signals[3] # game.community_commitment.v
    THEN Fail(game, "InvalidCommitment")
    ELSE IF verify_groth16_proof(vk, proof, public_signals) # "Ok"
    THEN Fail(game, "InvalidProof")
    ELSE
    LET p1_ranking == bytes_to_u32(public_signals[4])
        p2_ranking == bytes_to_u32(public_signals[5])
        winner_signal == bytes_to_u32(public_signals[6])
        winner == CASE winner_signal = 1 -> game.player1
                    [] winner_signal = 2 -> game.player2
                    [] OTHER -> game.player1
    IN  Returned(Done([game EXCEPT !.player1_ranking = Some(p1_ranking),
                                   !.player2_ranking = Some(p2_ranking),
                                   !.player1_revealed = TRUE,
                                   !.player2_revealed = TRUE,
                                   !.winner = Some(winner),
                                   !.phase = "Complete"],
                      <<HubEnd(session_id, winner = game.player1)>>),
                 winner)

reveal_winner_tie_to_player2(game, session_id, vk, proof, public_signals) ==
    IF game.winner.is_some THEN Returned(Done(game, <<>>), game.winner.v)
    ELSE IF game.phase # "Showdown" THEN Fail(game, "NotInPhase")
    ELSE IF ~game.player1_hole_commitment.is_some
            \/ ~game.player2_hole_commitment.is_some
    THEN Fail(game, "NotCommitted")
    ELSE IF Len(public_signals) < 6 THEN Fail(game, "InvalidProof")
    ELSE IF public_signals[1] # game.player1_hole_commitment.v
    THEN Fail(game, "InvalidCommitment")
    ELSE IF public_signals[2] # game.player2_hole_commitment.v
    THEN Fail(game, "InvalidCommitment")
    ELSE IF ~game.community_commitment.is_some
    THEN Fail(game, "InvalidCommitment")
    ELSE IF public_signals[3] # game.community_commitment.v
    THEN Fail(game, "InvalidCommitment")
    ELSE IF verify_groth16_proof(vk, proof, public_signals) # "Ok"
    THEN Fail(game, "InvalidProof")
    ELSE
    LET p1_ranking == bytes_to_u32(public_signals[4])
        p2_ranking == bytes_to_u32(public_signals[5])
        winner_signal == bytes_to_u32(public_signals[6])
        winner == CASE winner_signal = 1 -> game.player1
                    [] winner_signal = 2 -> game.player2
                    [] OTHER -> game.player2
    IN  Returned(Done([game EXCEPT !.player1_ranking = Some(p1_ranking),
                                   !.player2_ranking = Some(p2_ranking),
                                   !.player1_revealed = TRUE,
                                   !.player2_revealed = TRUE,
                                   !.winner = Some(winner),
                                   !.phase = "Complete"],
                      <<HubEnd(session_id, winner = game.player1)>>),
                 winner)

reveal_winner(game, session_id, vk, proof, public_signals) ==
    IF game.winner.is_some THEN Returned(Done(game, <<>>), game.winner.v)
    ELSE IF game.phase # "Showdown" THEN Fail(game, "NotInPhase")
    ELSE IF ~game.player1_hole_commitment.is_some
            \/ ~game.player2_hole_commitment.is_some
    THEN Fail(game, "NotCommitted")
    ELSE IF Len(public_signals) < 6 THEN Fail(game, "InvalidProof")
    ELSE IF public_signals[1] # game.player1_hole_commitment.v
    THEN Fail(game, "InvalidCommitment")
    ELSE IF public_signals[2] # game.player2_hole_commitment.v
    THEN Fail(game, "InvalidCommitment")
    ELSE IF ~game.community_commitment.is_some
    THEN Fail(game, "InvalidCommitment")
    ELSE IF public_signals[3] # game.community_commitment.v
    THEN Fail(game, "InvalidCommitment")
    ELSE IF verify_groth16_proof(vk, proof, public_signals) # "Ok"
    THEN Fail(game, "InvalidProof")
    ELSE
    LET p1_ranking == bytes_to_u32(public_signals[4])
        p2_ranking == bytes_to_u32(public_signals[5])
        winner_signal == bytes_to_u32(public_signals[6])
        winner == CASE winner_signal = 1 -> game.player1
                    [] winner_signal = 2 -> game.player2
                    [] OTHER -> game.player1
    IN  Returned(Done([game EXCEPT !.player1_ranking = Some(p1_ranking),
                                   !.player2_ranking = Some(p2_ranking),
                                   !.player1_revealed = TRUE,
                                   !.player2_revealed = TRUE,
                                   !.winner = Some(winner),
                                   !.phase = "Complete"],
                      <<HubEnd(session_id, winner = game.player1)>>),
                 winner)


(***************************************************************************)
(* pocker entry points as actions                                          *)
(***************************************************************************)
BuyIns == {0, MaxAmount}
Amounts == {0 - 1} \cup (0..MaxAmount)
Actions == {ActNone, ActFold, ActCheck, ActCall, ActAllIn}
               \cup {ActBet(a) : a \in Amounts} \cup {ActRaise(a) : a \in Amounts}
HoleCommitments == {<<1>>, <<2>>}
CommunityCommitments == {DummyCommunity, <<3>>}
Vks == {GoodVk}
\* a value below 2^31 as a 32-byte big-endian field element: the value is
\* in the last four bytes, the 28 bytes before them are zero
Field32(v) ==
    [i \in 1..32 |->
        IF i = 32 THEN v % 256
        ELSE IF i = 31 THEN (v \div 256) % 256
        ELSE IF i = 30 THEN (v \div 65536) % 256
        ELSE IF i = 29 THEN (v \div 16777216) % 256
        ELSE 0]
WinnerSignals == {<<0>>, <<1>>, <<2>>, Field32(2)}
RankSignals == {<<5>>}
PublicSignals ==
    {<<c1, c2, cc, r1, r2, w>> :
        c1 \in HoleCommitments, c2 \in HoleCommitments,
        cc \in CommunityCommitments, r1 \in RankSignals, r2 \in RankSignals,
        w \in WinnerSignals}
    \cup {<<<<1>>, <<2>>, DummyCommunity>>,
          <<<<1>>, <<2>>, DummyCommunity, <<5>>, <<5>>, <<1>>, <<0>>>>}
\* a proof: its points by their number of coordinates, and whether the
\* Groth16 pairing equation holds for it (nothing in the code reads that)
GoodProof == [pi_a |-> 2, pi_b |-> 4, pi_c |-> 2, holds |-> TRUE]
ForgedProof == [pi_a |-> 2, pi_b |-> 4, pi_c |-> 2, holds |-> FALSE]
ShortProof == [pi_a |-> 1, pi_b |-> 4, pi_c |-> 2, holds |-> FALSE]
\* the (proof, public_signals) arguments of reveal_winner
WinnerProofs ==
    {<<GoodProof, ps>> : ps \in PublicSignals}
    \cup {<<ForgedProof, <<<<1>>, <<2>>, DummyCommunity, <<5>>, <<5>>, <<2>>>>>>}
    \cup {<<ShortProof, <<<<1>>, <<2>>, DummyCommunity, <<5>>, <<5>>, <<1>>>>>>}

PokerCall(fn, sid, r) ==
    /\ contract = "pocker"
    /\ ret' = [fn |-> fn, err |-> r.err]
    /\ pokerStore' = IF r.err = "Ok" THEN (sid :> r.st) @@ pokerStore
                     ELSE pokerStore
    /\ hub' = IF r.err = "Ok" THEN hub \o r.hub ELSE hub
    /\ UNCHANGED <<contract, cardStore, pokerVk, istlStore, istlVks>>

PokerNotFound(fn) ==
    /\ contract = "pocker"
    /\ ret' = [fn |-> fn, err |-> "GameNotFound"]
    /\ UNCHANGED <<contract, cardStore, pokerStore, pokerVk, hub, istlStore, istlVks>>

PokerStartGame ==
    \E sid \in SessionIds, p1 \in {"alice"}, p2 \in StartPlayers,
       pts1 \in BuyIns, pts2 \in BuyIns :
        /\ Len(hub) < MaxHubCalls
        /\ PokerCall("start_game", sid, poker_start_game(sid, p1, p2, pts1, pts2))

PokerSubmitHoleCommitment ==
    \E sid \in SessionIds, player \in Addresses, c \in HoleCommitments :
        IF sid \in DOMAIN pokerStore
        THEN PokerCall("submit_hole_commitment", sid,
                       submit_hole_commitment(pokerStore[sid], player, c))
        ELSE PokerNotFound("submit_hole_commitment")

PokerSubmitCommunityCommitment ==
    \E sid \in SessionIds, c \in CommunityCommitments :
        IF sid \in DOMAIN pokerStore
        THEN PokerCall("submit_community_commitment", sid,
                       submit_community_commitment(pokerStore[sid], c))
        ELSE PokerNotFound("submit_community_commitment")

PokerPlayerAction ==
    \E sid \in SessionIds, player \in Addresses, action \in Actions :
        IF sid \in DOMAIN pokerStore
        THEN LET r == player_action(pokerStore[sid], sid, player, action)
             IN  /\ r.st.actions_this_round <= MaxActions
                 /\ PokerCall("player_action", sid, r)
        ELSE PokerNotFound("player_action")

PokerRevealWinner ==
    \E sid \in SessionIds, pp \in WinnerProofs :
        IF sid \in DOMAIN pokerStore
        THEN PokerCall("reveal_winner", sid,
                       reveal_winner(pokerStore[sid], sid, pokerVk, pp[1], pp[2]))
        ELSE PokerNotFound("reveal_winner")

PokerSetVerificationKey ==
    \E vk \in Vks :
        /\ contract = "pocker"
        /\ pokerVk' = Some(vk)
        /\ ret' = [fn |-> "set_verification_key", err |-> "Ok"]
        /\ UNCHANGED <<contract, cardStore, pokerStore, hub, istlStore, istlVks>>

PokerNext ==
    \/ PokerStartGame
    \/ PokerSubmitHoleCommitment
    \/ PokerSubmitCommunityCommitment
    \/ PokerPlayerAction
    \/ PokerRevealWinner
    \/ PokerSetVerificationKey

PokerInit ==
    /\ contract = "pocker"
    /\ cardStore = <<>>
    /\ pokerStore = <<>>
    /\ pokerVk = NoneVk
    /\ istlStore = <<>>
    /\ istlVks = NoVks
    /\ hub = <<>>
    /\ ret = NoRet

PokerSpec == PokerInit /\ [][PokerNext]_vars

\* The betting engine from the start of the first betting round: the record
\* of start_game with both hole commitments stored and phase Preflop, the
\* state test_commit_phase (test.rs 164-167) requires after the second
\* submit_hole_commitment.
PreflopGame(pts1, pts2) ==
    [poker_new_game("alice", "bob", pts1, pts2)
        EXCEPT !.player1_hole_commitment = Some(<<1>>),
               !.player2_hole_commitment = Some(<<2>>),
               !.phase = "Preflop"]

BettingInit ==
    /\ contract = "pocker"
    /\ cardStore = <<>>
    /\ \E pts1 \in BuyIns, pts2 \in BuyIns :
           pokerStore = (1 :> PreflopGame(pts1, pts2))
    /\ pokerVk = Some(GoodVk)
    /\ istlStore = <<>>
    /\ istlVks = NoVks
    /\ hub = <<HubStart(1)>>
    /\ ret = NoRet

BettingNext ==
    \/ PokerSubmitHoleCommitment
    \/ PokerSubmitCommunityCommitment
    \/ PokerPlayerAction
    \/ PokerRevealWinner

BettingSpec == BettingInit /\ [][BettingNext]_vars


\* Both contracts, each from its constructed state, and the betting engine
PhaseInit == CardInit \/ EndgameInit \/ PokerInit \/ BettingInit

PhaseNext == CardNext \/ PokerNext

PhaseSpec == PhaseInit /\ [][PhaseNext]_vars


(***************************************************************************)
(* is_betting_round_complete as a function of the game record: the record  *)
(* is drawn from the bounded field values and the function is applied.     *)
(***************************************************************************)
Chips == {0 - 1} \cup (0..MaxAmount)
LastActions == {ActNone, ActFold, ActCheck, ActCall, ActBet(1), ActRaise(1),
                ActAllIn}
RoundGame(a, n, b1, b2, s1, s2) ==
    [PreflopGame(MaxAmount, MaxAmount)
        EXCEPT !.last_action = a,
               !.actions_this_round = n,
               !.player1_bet = b1,
               !.player2_bet = b2,
               !.player1_stack = s1,
               !.player2_stack = s2]

RoundInit ==
    /\ contract = "pocker"
    /\ cardStore = <<>>
    /\ \E a \in LastActions, n \in 0..MaxActions, b1 \in Chips, b2 \in Chips,
          s1 \in Chips, s2 \in Chips :
           pokerStore = (1 :> RoundGame(a, n, b1, b2, s1, s2))
    /\ pokerVk = NoneVk
    /\ istlStore = <<>>
    /\ istlVks = NoVks
    /\ hub = <<>>
    /\ ret = NoRet

RoundEval ==
    /\ contract = "pocker"
    /\ ret.fn = "none"
    /\ ret' = [fn |-> "is_betting_round_complete", err |-> "Ok",
               val |-> is_betting_round_complete(pokerStore[1])]
    /\ UNCHANGED <<contract, cardStore, pokerStore, pokerVk, hub, istlStore, istlVks>>

RoundSpec == RoundInit /\ [][RoundEval]_vars

(***************************************************************************)
(* bytes_to_u32 as a function of its argument: the 32-byte encodings of    *)
(* the values a public signal can carry, and the short byte strings the    *)
(* tests pass for a signal.                                                *)
(***************************************************************************)
MaxSignalValue == 127  \* the small signal values, each tried
SignalValues == 0..MaxSignalValue \cup {255, 256, 65536, 16777216, 2147483647}

DecodeEval ==
    \E v \in SignalValues :
      \E bytes \in {Field32(v), <<v % 256>>} :
        /\ contract = "pocker"
        /\ ret' = [fn |-> "bytes_to_u32", err |-> "Ok",
                   val |-> [value |-> v, bytes |-> bytes,
                            decoded |-> bytes_to_u32(bytes)]]
        /\ UNCHANGED <<contract, cardStore, pokerStore, pokerVk, hub,
                       istlStore, istlVks>>

DecodeSpec == PokerInit /\ [][DecodeEval]_vars

(***************************************************************************)
(* verify_groth16 as a function of its arguments: the key is any key the   *)
(* administrator may have stored (set_verification_key validates nothing), *)
(* the proof and the public inputs are those of the call.                  *)
(***************************************************************************)
MaxInputs == 3         \* cap on the number of public inputs

ProofShapes ==
    {[pi_a |-> a, pi_b |-> b, pi_c |-> c, holds |-> FALSE] :
        a \in {1, 2}, b \in {0, 4}, c \in {0, 2}}
VkShapes ==
    {[alpha |-> a, beta |-> b, gamma |-> g, delta |-> d, ic |-> ic] :
        a \in {0, 2}, b \in {0, 4}, g \in {0, 4}, d \in {0, 4},
        ic \in {<<>>, <<2, 2>>, <<2, 2, 2>>}}
InputVectors == {[i \in 1..n |-> <<i>>] : n \in 0..MaxInputs}

VerifyInit ==
    /\ contract = "pocker"
    /\ cardStore = <<>>
    /\ pokerStore = <<>>
    /\ \E vk \in VkShapes : pokerVk = Some(vk)
    /\ istlStore = <<>>
    /\ istlVks = NoVks
    /\ hub = <<>>
    /\ ret = NoRet

VerifyEval ==
    \E proof \in ProofShapes, public_inputs \in InputVectors :
        /\ contract = "pocker"
        /\ ret' = [fn |-> "verify_groth16",
                   err |-> verify_groth16(pokerVk.v, proof, public_inputs),
                   val |-> <<proof, public_inputs>>]
        /\ UNCHANGED <<contract, cardStore, pokerStore, pokerVk, hub,
                       istlStore, istlVks>>

VerifySpec == VerifyInit /\ [][VerifyEval]_vars

(***************************************************************************)
(* interstellar (lib.rs).  Its verifier module (verifier.rs) is not part   *)
(* of the sources at hand: verify_groth16 is taken from the design         *)
(* document (Proof Verification Engine): the public inputs must number     *)
(* len(IC) - 1, and the proof is accepted iff the pairing equation holds.  *)
(***************************************************************************)
MaxShots == 1          \* cap on current_turn
MaxKills == 1          \* cap on a player's kills
MaxHealth == 150       \* cap on a player's health (shields exceed 100)
MaxAmmo == 80          \* cap on a player's ammo

\* a verification key by the length of its IC vector
IstlVk(n) == [ic_len |-> n]
\* a proof (three fixed-size points) by whether its pairing equation holds
IstlProofs == {[holds |-> TRUE], [holds |-> FALSE]}

istl_verify_groth16(vk, proof, public_inputs) ==
    IF Len(public_inputs) + 1 # vk.ic_len
    THEN [err |-> "InvalidPublicInputs", ok |-> FALSE]
    ELSE [err |-> "Ok", ok |-> proof.holds]

\* verify_shooting_proof, verify_damage_proof, verify_item_proof and
\* verify_win_proof: the circuit's stored key, then verify_groth16
verify_circuit_proof(vk, proof, public_signals) ==
    IF ~vk.is_some THEN "InvalidProof"
    ELSE LET is_valid == istl_verify_groth16(vk.v, proof, public_signals)
         IN  IF is_valid.err # "Ok" THEN "InvalidProof"
             ELSE IF ~is_valid.ok THEN "InvalidProof"
             ELSE "Ok"

\* result = (result << 8) | byte on an i32: the low 24 bits move up and bit
\* 23 becomes the sign
RECURSIVE be_fold_i32(_, _, _, _)
be_fold_i32(bytes, i, len, result) ==
    IF i > len THEN result
    ELSE LET low == result % 16777216
             shifted == IF low >= 8388608 THEN (low - 16777216) * 256
                        ELSE low * 256
         IN  be_fold_i32(bytes, i + 1, len, shifted + bytes[i])

bytes_to_i32(bytes) ==
    be_fold_i32(bytes, 1, IF Len(bytes) < 4 THEN Len(bytes) ELSE 4, 0)

Min(a, b) == IF a < b THEN a ELSE b

NewPlayerState ==
    [health |-> 100, kills |-> 0, position_commitment |-> NoneBytes,
     weapon_type |-> 0, ammo |-> 50]

istl_new_game(player1, player2, player1_points, player2_points, kill_limit, time_limit) ==
    [player1 |-> player1,
     player2 |-> player2,
     player1_points |-> player1_points,
     player2_points |-> player2_points,
     player1_state |-> NewPlayerState,
     player2_state |-> NewPlayerState,
     kill_limit |-> kill_limit,
     time_limit |-> time_limit,
     start_time |-> 0,
     current_turn |-> 0,
     last_actor |-> 0,
     winner |-> NoneAddr,
     phase |-> "Active"]

istl_start_game(session_id, player1, player2, player1_points, player2_points, kill_limit, time_limit) ==
    IF player1 = player2
    THEN Fail(istl_new_game(player1, player2, player1_points, player2_points,
                            kill_limit, time_limit), "NotPlayer")
    ELSE Done(istl_new_game(player1, player2, player1_points, player2_points,
                            kill_limit, time_limit),
              <<HubStart(session_id)>>)

submit_position(game, player, position_commitment) ==
    IF game.phase # "Active" THEN Fail(game, "GameAlreadyEnded")
    ELSE IF player = game.player1
    THEN Done([game EXCEPT !.player1_state.position_commitment =
                               Some(position_commitment)], <<>>)
    ELSE IF player = game.player2
    THEN Done([game EXCEPT !.player2_state.position_commitment =
                               Some(position_commitment)], <<>>)
    ELSE Fail(game, "NotPlayer")

shoot(game, vks, shooter, proof, public_signals) ==
    IF game.phase # "Active" THEN Fail(game, "GameAlreadyEnded")
    ELSE IF shooter # game.player1 /\ shooter # game.player2
    THEN Fail(game, "NotPlayer")
    ELSE IF verify_circuit_proof(vks.shooting, proof, public_signals) # "Ok"
    THEN Fail(game, "InvalidProof")
    ELSE IF Len(public_signals) < 3 THEN Fail(game, "InvalidProof")
    ELSE Returned(Done([game EXCEPT
                           !.current_turn = @ + 1,
                           !.last_actor = IF shooter = game.player1 THEN 0
                                          ELSE 1], <<>>),
                  bytes_to_u32(public_signals[3]) = 1)

apply_damage(game, vks, target, proof, public_signals) ==
    IF game.phase # "Active" THEN Fail(game, "GameAlreadyEnded")
    ELSE IF verify_circuit_proof(vks.damage, proof, public_signals) # "Ok"
    THEN Fail(game, "InvalidProof")
    ELSE IF Len(public_signals) < 3 THEN Fail(game, "InvalidProof")
    ELSE
    LET new_health == bytes_to_i32(public_signals[2])
    IN  IF target = game.player1
        THEN Done([game EXCEPT
                      !.player1_state.health = new_health,
                      !.player2_state.kills =
                          IF new_health <= 0 THEN @ + 1 ELSE @], <<>>)
        ELSE IF target = game.player2
        THEN Done([game EXCEPT
                      !.player2_state.health = new_health,
                      !.player1_state.kills =
                          IF new_health <= 0 THEN @ + 1 ELSE @], <<>>)
        ELSE Fail(game, "NotPlayer")

\* the match on item_type, on the collecting player's state
item_effect(player_state, item_type) ==
    CASE item_type = 0 ->
            Done([player_state EXCEPT !.health = Min(@ + 25, 100)], <<>>)
      [] item_type = 1 ->
            Done([player_state EXCEPT !.ammo = @ + 30], <<>>)
      [] item_type = 2 ->
            Done([player_state EXCEPT !.weapon_type = Min(@ + 1, 3)], <<>>)
      [] item_type = 3 ->
            Done([player_state EXCEPT !.health = @ + 50], <<>>)
      [] OTHER -> Fail(player_state, "InvalidItemCollection")

collect_item(game, vks, player, proof, public_signals) ==
    IF game.phase # "Active" THEN Fail(game, "GameAlreadyEnded")
    ELSE IF verify_circuit_proof(vks.item, proof, public_signals) # "Ok"
    THEN Fail(game, "InvalidProof")
    ELSE IF Len(public_signals) < 3 THEN Fail(game, "InvalidProof")
    ELSE IF bytes_to_u32(public_signals[3]) # 1
    THEN Fail(game, "InvalidItemCollection")
    ELSE IF player # game.player1 /\ player # game.player2
    THEN Fail(game, "NotPlayer")
    ELSE
    LET item_type == bytes_to_u32(public_signals[2])
        e == item_effect(IF player = game.player1 THEN game.player1_state
                         ELSE game.player2_state, item_type)
    IN  IF e.err # "Ok" THEN Fail(game, e.err)
        ELSE IF player = game.player1
        THEN Done([game EXCEPT !.player1_state = e.st], <<>>)
        ELSE Done([game EXCEPT !.player2_state = e.st], <<>>)

determine_winner_reverifies(game, session_id, vks, proof, public_signals) ==
    IF verify_circuit_proof(vks.win, proof, public_signals) # "Ok"
    THEN Fail(game, "InvalidProof")
    ELSE IF game.winner.is_some THEN Returned(Done(game, <<>>), game.winner.v)
    ELSE IF Len(public_signals) < 6 THEN Fail(game, "InvalidProof")
    ELSE
    LET winner_signal == bytes_to_u32(public_signals[5])
        winner == CASE winner_signal = 1 -> game.player1
                    [] winner_signal = 2 -> game.player2
                    [] OTHER -> game.player1
    IN  Returned(Done([game EXCEPT !.winner = Some(winner),
                                   !.phase = "Complete"],
                      <<HubEnd(session_id, winner = game.player1)>>),
                 winner)

determine_winner(game, session_id, vks, proof, public_signals) ==
    IF game.winner.is_some THEN Returned(Done(game, <<>>), game.winner.v)
    ELSE IF verify_circuit_proof(vks.win, proof, public_signals) # "Ok"
    THEN Fail(game, "InvalidProof")
    ELSE IF Len(public_signals) < 6 THEN Fail(game, "InvalidProof")
    ELSE
    LET winner_signal == bytes_to_u32(public_signals[5])
        winner == CASE winner_signal = 1 -> game.player1
                    [] winner_signal = 2 -> game.player2
                    [] OTHER -> game.player1
    IN  Returned(Done([game EXCEPT !.winner = Some(winner),
                                   !.phase = "Complete"],
                      <<HubEnd(session_id, winner = game.player1)>>),
                 winner)

(***************************************************************************)
(* interstellar entry points as actions                                    *)
(***************************************************************************)
\* the four circuits' keys stored: three public signals for a shot, a
\* damage and an item, six for the winner
AllVks == [shooting |-> Some(IstlVk(4)), damage |-> Some(IstlVk(4)),
           item |-> Some(IstlVk(4)), win |-> Some(IstlVk(7))]
\* the circuits whose keys the administrator sets during a behaviour
Circuits == {"shooting", "win"}
PositionCommitments == {<<1>>}
ShootSignals ==
    {<<c, <<1>>, h>> : c \in {<<1>>, <<2>>}, h \in {<<0>>, <<1>>}}
    \cup {<<<<1>>, <<1>>>>}
\* new_health 75 and -25 (two's complement, big-endian)
DamageSignals ==
    {<<<<100>>, h, <<0>>>> : h \in {<<75>>, <<255, 255, 255, 231>>}}
ItemSignals ==
    {<<<<7>>, <<t>>, <<1>>>> : t \in 0..4} \cup {<<<<7>>, <<0>>, <<0>>>>}
WinSignals ==
    {<<<<1>>, <<0>>, <<3>>, <<0>>, w, <<0>>>> : w \in WinnerSignals}
    \cup {<<<<1>>, <<0>>, <<3>>, <<0>>, <<2>>>>}

IstlCall(fn, sid, r) ==
    /\ contract = "interstellar"
    /\ ret' = [fn |-> fn, err |-> r.err]
    /\ istlStore' = IF r.err = "Ok" THEN (sid :> r.st) @@ istlStore
                    ELSE istlStore
    /\ hub' = IF r.err = "Ok" THEN hub \o r.hub ELSE hub
    /\ UNCHANGED <<contract, cardStore, pokerStore, pokerVk, istlVks>>

IstlNotFound(fn) ==
    /\ contract = "interstellar"
    /\ ret' = [fn |-> fn, err |-> "GameNotFound"]
    /\ UNCHANGED <<contract, cardStore, pokerStore, pokerVk, istlStore,
                   istlVks, hub>>

IstlStartGame ==
    \E sid \in SessionIds, p1 \in {"alice"}, p2 \in StartPlayers,
       pts \in {MaxAmount}, kill_limit \in {3}, time_limit \in {600} :
        /\ Len(hub) < MaxHubCalls
        /\ IstlCall("start_game", sid,
                    istl_start_game(sid, p1, p2, pts, pts, kill_limit,
                                    time_limit))

IstlSubmitPosition ==
    \E sid \in SessionIds, player \in Addresses, c \in PositionCommitments :
        IF sid \in DOMAIN istlStore
        THEN IstlCall("submit_position", sid,
                      submit_position(istlStore[sid], player, c))
        ELSE IstlNotFound("submit_position")

IstlShoot ==
    \E sid \in SessionIds, shooter \in Addresses, proof \in IstlProofs,
       ps \in ShootSignals :
        IF sid \in DOMAIN istlStore
        THEN LET r == shoot(istlStore[sid], istlVks, shooter, proof, ps)
             IN  /\ r.st.current_turn <= MaxShots
                 /\ IstlCall("shoot", sid, r)
        ELSE IstlNotFound("shoot")

IstlApplyDamage ==
    \E sid \in SessionIds, target \in Addresses, proof \in IstlProofs,
       ps \in DamageSignals :
        IF sid \in DOMAIN istlStore
        THEN LET r == apply_damage(istlStore[sid], istlVks, target, proof, ps)
             IN  /\ r.st.player1_state.kills <= MaxKills
                 /\ r.st.player2_state.kills <= MaxKills
                 /\ IstlCall("apply_damage", sid, r)
        ELSE IstlNotFound("apply_damage")

IstlCollectItem ==
    \E sid \in SessionIds, player \in Addresses, proof \in IstlProofs,
       ps \in ItemSignals :
        IF sid \in DOMAIN istlStore
        THEN LET r == collect_item(istlStore[sid], istlVks, player, proof, ps)
             IN  /\ r.st.player1_state.health <= MaxHealth
                 /\ r.st.player2_state.health <= MaxHealth
                 /\ r.st.player1_state.ammo <= MaxAmmo
                 /\ r.st.player2_state.ammo <= MaxAmmo
                 /\ IstlCall("collect_item", sid, r)
        ELSE IstlNotFound("collect_item")

IstlDetermineWinner ==
    \E sid \in SessionIds, proof \in IstlProofs, ps \in WinSignals :
        IF sid \in DOMAIN istlStore
        THEN IstlCall("determine_winner", sid,
                      determine_winner(istlStore[sid], sid, istlVks, proof, ps))
        ELSE IstlNotFound("determine_winner")

\* set_shooting_vk, set_damage_vk, set_item_vk, set_win_vk
IstlSetVk ==
    \E c \in Circuits :
        /\ contract = "interstellar"
        /\ istlVks' = [istlVks EXCEPT ![c] = AllVks[c]]
        /\ ret' = [fn |-> "set_vk", err |-> "Ok"]
        /\ UNCHANGED <<contract, cardStore, pokerStore, pokerVk, istlStore, hub>>

\* sessions, positions, shots and the winner
IstlNext ==
    \/ IstlStartGame
    \/ IstlSubmitPosition
    \/ IstlShoot
    \/ IstlDetermineWinner
    \/ IstlSetVk

IstlInit ==
    /\ contract = "interstellar"
    /\ cardStore = <<>>
    /\ pokerStore = <<>>
    /\ pokerVk = NoneVk
    /\ istlStore = <<>>
    /\ istlVks = NoVks
    /\ hub = <<>>
    /\ ret = NoRet

IstlSpec == IstlInit /\ [][IstlNext]_vars

\* Damage and items on a started session with the four keys stored
CombatInit ==
    /\ contract = "interstellar"
    /\ cardStore = <<>>
    /\ pokerStore = <<>>
    /\ pokerVk = NoneVk
    /\ istlStore = (1 :> istl_new_game("alice", "bob", MaxAmount, MaxAmount,
                                       3, 600))
    /\ istlVks = AllVks
    /\ hub = <<HubStart(1)>>
    /\ ret = NoRet

CombatNext ==
    \/ IstlApplyDamage
    \/ IstlCollectItem
    \/ IstlDetermineWinner

CombatSpec == CombatInit /\ [][CombatNext]_vars

\* The sessions that end by a proof of the winner: pocker (from its
\* constructed state and from the first betting round) and interstellar
WinnerInit == PokerInit \/ BettingInit \/ IstlInit

WinnerNext == PokerNext \/ IstlNext

WinnerSpec == WinnerInit /\ [][WinnerNext]_vars

(***************************************************************************)
(* Properties                                                              *)
(***************************************************************************)
BothHoleCommitted(g) ==
    g.player1_hole_commitment.is_some /\ g.player2_hole_commitment.is_some

\* C1: pocker: with one hole commitment stored the phase is still Commit,
\* and when the second submit_hole_commitment lands the phase is Preflop.
C1_PreflopAfterCommits ==
    \A sid \in DOMAIN pokerStore :
        LET g == pokerStore[sid]
        IN  /\ (g.player1_hole_commitment.is_some
                    # g.player2_hole_commitment.is_some) => g.phase = "Commit"
            /\ (ret = [fn |-> "submit_hole_commitment", err |-> "Ok"]
                    /\ BothHoleCommitted(g)) => g.phase = "Preflop"

C3_CommitImmutable ==
    [][\A sid \in DOMAIN cardStore :
          /\ cardStore[sid].p1_commit.is_some =>
                cardStore'[sid].p1_commit = cardStore[sid].p1_commit
          /\ cardStore[sid].p2_commit.is_some =>
                cardStore'[sid].p2_commit = cardStore[sid].p2_commit]_vars

CommitOf(g, player) == IF player = g.player1 THEN g.p1_commit ELSE g.p2_commit

\* C4: card-rpg reveal in phase Reveal by a participant: it succeeds exactly
\* when sha256(m) is the caller's stored commitment; otherwise it fails with
\* InvalidCommitment, and a failed reveal leaves the record as it was.
C4_RevealIffPreimage ==
    [][\A sid \in DOMAIN cardStore' :
          LET g == cardStore'[sid]
          IN  /\ g.phase = "Reveal" =>
                   \A player \in {g.player1, g.player2}, m \in Seeds :
                      LET r == reveal(g, player, m)
                      IN  /\ r.err = "Ok" <=> Sha256(m) = CommitOf(g, player).v
                          /\ r.err # "Ok" => r.err = "InvalidCommitment"
              /\ (ret'.fn = "reveal" /\ ret'.err # "Ok") =>
                     cardStore' = cardStore]_vars

C4_Witness ==
    /\ ret = [fn |-> "reveal", err |-> "InvalidCommitment"]
    /\ \E sid \in DOMAIN cardStore :
           /\ cardStore[sid].phase = "Reveal"
           /\ cardStore[sid].p1_revealed

\* the preimages a player has revealed: none before the reveal, and after
\* it one seed whose hash is the stored commitment
RevealedPart(revealed, commitment) ==
    IF revealed THEN {s \in Seeds : Sha256(s) = commitment.v} ELSE {<<>>}

\* C5: card-rpg: shared_seed is the concatenation of at most one preimage
\* of each player, in either order.
C5_EntropyOncePerPlayer ==
    \A sid \in DOMAIN cardStore :
        LET g == cardStore[sid]
        IN  \E a \in RevealedPart(g.p1_revealed, g.p1_commit),
               b \in RevealedPart(g.p2_revealed, g.p2_commit) :
                g.shared_seed = a \o b \/ g.shared_seed = b \o a

CardRank(phase) ==
    CASE phase = "Created" -> 0
      [] phase = "Commit" -> 1
      [] phase = "Reveal" -> 2
      [] phase = "Playing" -> 3
      [] phase = "Finished" -> 4

PokerRank(phase) == CHOOSE i \in 1..Len(PokerPhases) : PokerPhases[i] = phase

C7_StartingPlayer ==
    \A sid \in DOMAIN cardStore :
        LET g == cardStore[sid]
        IN  (g.phase = "Playing" /\ g.turn_number = 1) =>
                g.active_player = IF Sha256Table[g.shared_seed][32] % 2 = 0
                                  THEN g.player1 ELSE g.player2

C7_Witness ==
    /\ ret = [fn |-> "reveal", err |-> "Ok"]
    /\ \E sid \in DOMAIN cardStore :
           /\ cardStore[sid].phase = "Playing"
           /\ cardStore[sid].turn_number = 1
           /\ cardStore[sid].active_player = cardStore[sid].player2

\* C8: card-rpg: for the two committed preimages s1, s2, each revealed once,
\* the starting player is the same whichever player revealed first.
C8_OrderIndependent ==
    \A sid \in DOMAIN cardStore : \A s1 \in Seeds, s2 \in Seeds :
        LET g == cardStore[sid]
        IN  (/\ g.phase = "Playing" /\ g.turn_number = 1
             /\ Sha256(s1) = g.p1_commit.v /\ Sha256(s2) = g.p2_commit.v
             /\ g.shared_seed \in {s1 \o s2, s2 \o s1}) =>
                /\ g.active_player =
                       starting_player([g EXCEPT !.shared_seed = s1 \o s2])
                /\ g.active_player =
                       starting_player([g EXCEPT !.shared_seed = s2 \o s1])

\* the five rules of the round-completion predicate, in their precedence
FiveRules(g) ==
    IF g.last_action.kind = "Fold" THEN TRUE
    ELSE IF g.actions_this_round < 2 THEN FALSE
    ELSE IF g.player1_bet # g.player2_bet THEN FALSE
    ELSE IF g.player1_stack = 0 \/ g.player2_stack = 0 THEN TRUE
    ELSE \/ g.last_action.kind \in {"Call", "AllIn"}
         \/ g.last_action.kind = "Check" /\ g.player1_bet = 0 /\ g.player2_bet = 0

BetsAndRaises == {ActBet(a) : a \in Amounts} \cup {ActRaise(a) : a \in Amounts}

InBetting(g) == g.phase \in {"Preflop", "Flop", "Turn", "River"}
Actor(g) == IF g.current_actor = 0 THEN g.player1 ELSE g.player2
Opponent(g) == IF g.current_actor = 0 THEN g.player2 ELSE g.player1
OwnStack(g) == IF g.current_actor = 0 THEN g.player1_stack ELSE g.player2_stack
OwnBet(g) == IF g.current_actor = 0 THEN g.player1_bet ELSE g.player2_bet
OppBet(g) == IF g.current_actor = 0 THEN g.player2_bet ELSE g.player1_bet

\* the record after the current actor has moved `cost` chips from the stack
\* to the pot and holds the bet `bet`, with `action` as the last action
Paid(g, cost, bet, action) ==
    IF g.current_actor = 0
    THEN [g EXCEPT !.player1_stack = g.player1_stack - cost,
                   !.player1_bet = bet,
                   !.pot = g.pot + cost,
                   !.last_action = action]
    ELSE [g EXCEPT !.player2_stack = g.player2_stack - cost,
                   !.player2_bet = bet,
                   !.pot = g.pot + cost,
                   !.last_action = action]

\* C11: pocker Fold by the current actor in a betting phase always succeeds:
\* the opponent is the winner, the phase is Complete, stacks, bets and pot
\* (every other field) are unchanged, and end_game is reported with
\* player1_won true exactly when player 2 folded.
C11_FoldEndsHand ==
    \A sid \in DOMAIN pokerStore :
        LET g == pokerStore[sid]
            r == player_action(g, sid, Actor(g), ActFold)
        IN  InBetting(g) =>
              /\ r.err = "Ok"
              /\ r.st = [g EXCEPT !.winner = Some(Opponent(g)),
                                  !.phase = "Complete"]
              /\ r.hub = <<[fn |-> "end_game", session_id |-> sid,
                            player1_won |-> (g.current_actor = 1)]>>

C11_Witness ==
    /\ ret = [fn |-> "player_action", err |-> "Ok"]
    /\ Len(hub) > 1
    /\ hub[Len(hub)] = [fn |-> "end_game", session_id |-> 1,
                        player1_won |-> TRUE]
    /\ pokerStore[1].phase = "Complete"
    /\ pokerStore[1].winner = Some(pokerStore[1].player1)
    /\ pokerStore[1].player1_bet = pokerStore[1].player2_bet
    /\ pokerStore[1].pot > 0

RaiseExample ==
    [PreflopGame(100, 100) EXCEPT !.player1_stack = 80,
                                  !.player1_bet = 20,
                                  !.pot = 20,
                                  !.last_raise_amount = 20,
                                  !.last_action = ActBet(20),
                                  !.actions_this_round = 1,
                                  !.current_actor = 1]

RaiseLegal(g, a) ==
    /\ a >= OppBet(g) + (IF g.last_raise_amount >= OppBet(g)
                         THEN g.last_raise_amount ELSE OppBet(g))
    /\ a <= OwnStack(g) + OwnBet(g)

RaiseDone(g, a) ==
    [Paid(g, a - OwnBet(g), a, ActRaise(a))
        EXCEPT !.last_raise_amount = a - OppBet(g)]

NonFoldActions == Actions \ {ActFold}

\* the phase one step after a betting phase
StepPhase(phase) == PokerPhases[PokerRank(phase) + 1]

\* C17: pocker player_action, after every accepted non-fold action, with
\* the action counted: if the round is complete, both bets are 0, the phase
\* is one step further, current_actor is player 1, last_action is None and
\* actions_this_round is 0, stacks and pot as the action left them; if not,
\* phase, bets and counters stay as the action left them and current_actor
\* is the other player.
C17_RoundCloseOrToggle ==
    \A sid \in DOMAIN pokerStore : \A action \in NonFoldActions :
        LET g == pokerStore[sid]
            r == player_action(g, sid, Actor(g), action)
            e == action_effect(g, g.current_actor = 0, action)
            counted == [e.st EXCEPT !.actions_this_round =
                                        g.actions_this_round + 1]
        IN  (InBetting(g) /\ r.err = "Ok") =>
              IF FiveRules(counted)
              THEN /\ r.st = [e.st EXCEPT !.player1_bet = 0,
                                          !.player2_bet = 0,
                                          !.phase = StepPhase(g.phase),
                                          !.current_actor = 0,
                                          !.last_action = ActNone,
                                          !.actions_this_round = 0]
                   /\ StepPhase(g.phase) \in {"Flop", "Turn", "River", "Showdown"}
              ELSE r.st = [counted EXCEPT !.current_actor = 1 - g.current_actor]

C17_Witness ==
    /\ ret = [fn |-> "player_action", err |-> "Ok"]
    /\ pokerStore[1].phase = "Showdown"
    /\ ~pokerStore[1].winner.is_some
    /\ pokerStore[1].pot > 0
    /\ pokerStore[1].actions_this_round = 0
    /\ pokerStore[1].last_action = ActNone

\* C18: pocker, Bet then Call from the start of a round (bets 0/0, no
\* action yet, both stacks >= a > 0): after Bet(a) the round is open and it
\* is the opponent's turn; after the opponent's Call the phase is one step
\* further, the bets are 0/0 and the pot has grown by 2a (100/100 and a = 20
\* give pot 40).
C18_BetThenCall ==
    /\ \A sid \in DOMAIN pokerStore : \A a \in 1..MaxAmount :
          LET g == pokerStore[sid]
              r1 == player_action(g, sid, Actor(g), ActBet(a))
              r2 == player_action(r1.st, sid, Actor(r1.st), ActCall)
          IN  (/\ InBetting(g)
               /\ g.player1_bet = 0 /\ g.player2_bet = 0
               /\ g.actions_this_round = 0 /\ g.last_action = ActNone
               /\ g.player1_stack >= a /\ g.player2_stack >= a) =>
                 /\ r1.err = "Ok"
                 /\ r1.st.phase = g.phase
                 /\ r1.st.current_actor = 1 - g.current_actor
                 /\ OppBet(r1.st) = a /\ OwnBet(r1.st) = 0
                 /\ r2.err = "Ok"
                 /\ r2.st.phase = StepPhase(g.phase)
                 /\ r2.st.player1_bet = 0 /\ r2.st.player2_bet = 0
                 /\ r2.st.pot = g.pot + 2 * a
    /\ LET g == PreflopGame(100, 100)
           r1 == player_action(g, 1, "alice", ActBet(20))
           r2 == player_action(r1.st, 1, "bob", ActCall)
       IN  /\ r1.err = "Ok" /\ r1.st.phase = "Preflop"
           /\ r2.err = "Ok" /\ r2.st.phase = "Flop"
           /\ r2.st.pot = 40
           /\ r2.st.player1_bet = 0 /\ r2.st.player2_bet = 0
           /\ r2.st.player1_stack = 80 /\ r2.st.player2_stack = 80

C18_Witness ==
    /\ ret = [fn |-> "player_action", err |-> "Ok"]
    /\ pokerStore[1].phase = "Flop"
    /\ pokerStore[1].pot = 2
    /\ pokerStore[1].player1_stack = 1 /\ pokerStore[1].player2_stack = 1
    /\ pokerStore[1].player1_bet = 0 /\ pokerStore[1].player2_bet = 0
    /\ pokerStore[1].last_raise_amount = 1
    /\ pokerStore[1].last_action = ActNone

\* C19: pocker chip conservation: in every state of a session the two
\* stacks and the pot add up to the two buy-ins, so the pot is the sum of
\* what the players have put in.
C19_ChipConservation ==
    \A sid \in DOMAIN pokerStore :
        LET g == pokerStore[sid]
        IN  /\ g.player1_stack + g.player2_stack + g.pot
                  = g.player1_points + g.player2_points
            /\ g.pot = (g.player1_points - g.player1_stack)
                          + (g.player2_points - g.player2_stack)

C19_Witness ==
    /\ ret = [fn |-> "player_action", err |-> "NotInPhase"]
    /\ pokerStore[1].phase = "Complete"
    /\ pokerStore[1].pot = MaxAmount
    /\ pokerStore[1].player1_stack = 0
    /\ pokerStore[1].player2_stack = MaxAmount

Rejected(r, g, e) == r.err = e /\ r.st = g /\ r.hub = <<>>

\* C21: a mutating entry point called outside its phase fails with
\* NotInPhase and changes nothing: card-rpg commit outside Commit, reveal
\* outside Reveal, draw_card and bank_cards (authorised by the active
\* player) outside Playing; pocker submit_hole_commitment outside Commit,
\* player_action outside Preflop/Flop/Turn/River, reveal_winner outside
\* Showdown when no winner is recorded.
C21_PhaseGate ==
    /\ \A sid \in DOMAIN cardStore :
          LET g == cardStore[sid]
          IN  /\ g.phase # "Commit" =>
                    \A p \in Addresses, h \in Commitments :
                        Rejected(commit(g, p, h), g, "NotInPhase")
              /\ g.phase # "Reveal" =>
                    \A p \in Addresses, m \in Seeds :
                        Rejected(reveal(g, p, m), g, "NotInPhase")
              /\ g.phase # "Playing" =>
                    /\ \A c \in CardIds, n \in ProofLens, b \in BOOLEAN,
                          m \in SuitMasks :
                           Rejected(draw_card(g, g.active_player, c, n, b, m),
                                    g, "NotInPhase")
                    /\ Rejected(bank_cards(g, g.active_player), g, "NotInPhase")
    /\ \A sid \in DOMAIN pokerStore :
          LET g == pokerStore[sid]
          IN  /\ g.phase # "Commit" =>
                    \A p \in Addresses, c \in HoleCommitments :
                        Rejected(submit_hole_commitment(g, p, c), g, "NotInPhase")
              /\ ~InBetting(g) =>
                    \A p \in Addresses, a \in Actions :
                        Rejected(player_action(g, sid, p, a), g, "NotInPhase")
              /\ (g.phase # "Showdown" /\ ~g.winner.is_some) =>
                    \A pp \in WinnerProofs :
                        Rejected(reveal_winner(g, sid, pokerVk, pp[1], pp[2]),
                                 g, "NotInPhase")

C21_Witness ==
    /\ ret = [fn |-> "bank_cards", err |-> "NotInPhase"]
    /\ \E sid \in DOMAIN cardStore : cardStore[sid].phase = "Finished"

C23_TerminalFrozen ==
    [][/\ \A sid \in DOMAIN pokerStore :
            (pokerStore[sid].phase = "Complete" /\ ret'.fn # "start_game") =>
                pokerStore'[sid] = pokerStore[sid]
       /\ \A sid \in DOMAIN istlStore :
            (istlStore[sid].phase = "Complete" /\ ret'.fn # "start_game") =>
                istlStore'[sid] = istlStore[sid]
       /\ \A sid \in DOMAIN cardStore :
            cardStore[sid].phase = "Finished" =>
                cardStore'[sid] = cardStore[sid]
      ]_vars

(***************************************************************************)
(* Proofs of the winner                                                    *)
(***************************************************************************)
\* the call r only returned the winner recorded in g
ReturnsRecorded(r, g) ==
    r.err = "Ok" /\ r.val = g.winner.v /\ r.st = g /\ r.hub = <<>>

\* C24: once a winner is recorded, pocker reveal_winner and interstellar
\* determine_winner return the recorded winner for any proof and public
\* signals and any stored key: nothing is verified, the record is not
\* changed and the hub is not called.
C24_WinnerQueryIdempotent ==
    /\ \A sid \in DOMAIN pokerStore :
          LET g == pokerStore[sid]
          IN  g.winner.is_some =>
                \A vk \in {NoneVk, Some(GoodVk)}, pp \in WinnerProofs :
                    ReturnsRecorded(reveal_winner(g, sid, vk, pp[1], pp[2]), g)
    /\ \A sid \in DOMAIN istlStore :
          LET g == istlStore[sid]
          IN  g.winner.is_some =>
                \A vks \in {NoVks, AllVks}, proof \in IstlProofs,
                   ps \in WinSignals :
                    ReturnsRecorded(determine_winner(g, sid, vks, proof, ps), g)

\* reveal_winner answered on a hand that a fold had ended: no ranking was
\* ever revealed
C24_Witness ==
    /\ ret = [fn |-> "reveal_winner", err |-> "Ok"]
    /\ \E sid \in DOMAIN pokerStore :
           /\ pokerStore[sid].winner.is_some
           /\ ~pokerStore[sid].player1_ranking.is_some

\* the public signals 0, 1, 2 against the commitments stored in g
CommitmentMismatch(g, public_signals) ==
    \/ public_signals[1] # g.player1_hole_commitment.v
    \/ public_signals[2] # g.player2_hole_commitment.v
    \/ ~g.community_commitment.is_some
    \/ public_signals[3] # g.community_commitment.v

\* C25 (as stated): in Showdown, whenever public signal 0, 1 or 2 differs
\* from the stored player-1 hole, player-2 hole or community commitment,
\* reveal_winner fails with InvalidCommitment and changes nothing.
C25_MismatchIsInvalidCommitment ==
    \A sid \in DOMAIN pokerStore :
        LET g == pokerStore[sid]
        IN  (g.phase = "Showdown" /\ ~g.winner.is_some) =>
              \A vk \in {NoneVk, Some(GoodVk)}, pp \in WinnerProofs :
                  (Len(pp[2]) >= 3 /\ CommitmentMismatch(g, pp[2])) =>
                      Rejected(reveal_winner(g, sid, vk, pp[1], pp[2]),
                               g, "InvalidCommitment")

\* C25 (amended): in Showdown, for a vector of at least six public signals,
\* whenever signal 0, 1 or 2 differs from the stored player-1 hole,
\* player-2 hole or community commitment, reveal_winner fails with
\* InvalidCommitment whatever the proof and the stored key are (the check
\* precedes the verification), and the record is unchanged and the hub not
\* called.
C25_CrossCheckFirst ==
    \A sid \in DOMAIN pokerStore :
        LET g == pokerStore[sid]
        IN  (g.phase = "Showdown" /\ ~g.winner.is_some) =>
              \A vk \in {NoneVk, Some(GoodVk)},
                 proof \in {GoodProof, ShortProof}, pp \in WinnerProofs :
                  (Len(pp[2]) >= 6 /\ CommitmentMismatch(g, pp[2])) =>
                      Rejected(reveal_winner(g, sid, vk, proof, pp[2]),
                               g, "InvalidCommitment")

\* a mismatch reported while no verification key is stored
C25_Witness ==
    /\ ret = [fn |-> "reveal_winner", err |-> "InvalidCommitment"]
    /\ ~pokerVk.is_some
    /\ \E sid \in DOMAIN pokerStore :
           /\ pokerStore[sid].phase = "Showdown"
           /\ pokerStore[sid].community_commitment.is_some

\* C26: reveal_winner applies the effects of a proof only when the pairing
\* check accepts it under the stored key: in Showdown, with six matching
\* public signals, a well-formed proof whose pairing equation does not
\* hold, or any proof while no key is stored, is answered InvalidProof with
\* the record unchanged and no end_game call.
C26_EffectsOnlyIfPairingHolds ==
    \A sid \in DOMAIN pokerStore :
        LET g == pokerStore[sid]
        IN  (g.phase = "Showdown" /\ ~g.winner.is_some) =>
              \A pp \in WinnerProofs :
                  (/\ Len(pp[2]) >= 6
                   /\ ~CommitmentMismatch(g, pp[2])
                   /\ (~pp[1].holds \/ ~pokerVk.is_some)) =>
                      Rejected(reveal_winner(g, sid, pokerVk, pp[1], pp[2]),
                               g, "InvalidProof")

(***************************************************************************)
(* The Groth16 verifier                                                    *)
(***************************************************************************)
ProofLengthsOk(proof) == proof.pi_a = 2 /\ proof.pi_b = 4 /\ proof.pi_c = 2
KeyLengthsOk(vk) ==
    vk.alpha = 2 /\ vk.beta = 4 /\ vk.gamma = 4 /\ vk.delta = 4

\* C27: verify_groth16 checks the structure first and in order: a proof
\* with pi_a not of 2, pi_b not of 4 or pi_c not of 2 elements gives
\* InvalidProofStructure whatever the key and the inputs are; otherwise a
\* key with alpha not of 2 or beta, gamma or delta not of 4 elements gives
\* InvalidVerificationKey; otherwise len(public_inputs) + 1 # len(IC)
\* gives InvalidPublicInputs.
C27_StructuralChecksOrdered ==
    ret.fn = "verify_groth16" =>
        LET proof == ret.val[1]
            public_inputs == ret.val[2]
            vk == pokerVk.v
        IN  /\ ~ProofLengthsOk(proof) => ret.err = "InvalidProofStructure"
            /\ (ProofLengthsOk(proof) /\ ~KeyLengthsOk(vk)) =>
                   ret.err = "InvalidVerificationKey"
            /\ (/\ ProofLengthsOk(proof)
                /\ KeyLengthsOk(vk)
                /\ Len(public_inputs) + 1 # Len(vk.ic)) =>
                   ret.err = "InvalidPublicInputs"

\* three public inputs against a well-formed key with len(IC) = 3
C27_Witness ==
    /\ ret.fn = "verify_groth16"
    /\ ret.err = "InvalidPublicInputs"
    /\ ProofLengthsOk(ret.val[1])
    /\ KeyLengthsOk(pokerVk.v)
    /\ Len(pokerVk.v.ic) = 3
    /\ Len(ret.val[2]) = 3

\* the winner a winner code selects
WinnerOf(g, code) ==
    CASE code = 1 -> g.player1
      [] code = 2 -> g.player2
      [] OTHER -> g.player1

\* the call r on the record g recorded the winner of the code and reported
\* it to the hub
RecordsWinner(r, g, sid, code) ==
    /\ r.st.winner = Some(WinnerOf(g, code))
    /\ r.st.phase = "Complete"
    /\ r.val = WinnerOf(g, code)
    /\ r.hub = <<HubEnd(sid, WinnerOf(g, code) = g.player1)>>

\* C28: an accepted winner proof records player 1 for winner code 1,
\* player 2 for code 2 and player 1 for every other code, and the hub's
\* end_game receives player1_won = (recorded winner = player 1); the code
\* is the integer read from public signal 5 by pocker reveal_winner and
\* from public signal 4 by interstellar determine_winner.  A recorded
\* winner is the one of the last end_game call.
C28_WinnerCodeMapping ==
    /\ \A sid \in DOMAIN pokerStore :
          LET g == pokerStore[sid]
          IN  /\ ~g.winner.is_some =>
                    \A pp \in WinnerProofs :
                        LET r == reveal_winner(g, sid, pokerVk, pp[1], pp[2])
                        IN  r.err = "Ok" =>
                              RecordsWinner(r, g, sid, bytes_to_u32(pp[2][6]))
              /\ g.winner.is_some =>
                    hub[Len(hub)] = HubEnd(sid, g.winner.v = g.player1)
    /\ \A sid \in DOMAIN istlStore :
          LET g == istlStore[sid]
          IN  /\ ~g.winner.is_some =>
                    \A proof \in IstlProofs, ps \in WinSignals :
                        LET r == determine_winner(g, sid, istlVks, proof, ps)
                        IN  r.err = "Ok" =>
                              RecordsWinner(r, g, sid, bytes_to_u32(ps[5]))
              /\ g.winner.is_some =>
                    hub[Len(hub)] = HubEnd(sid, g.winner.v = g.player1)

\* interstellar: player 2 recorded and reported
C28_Witness ==
    /\ ret = [fn |-> "determine_winner", err |-> "Ok"]
    /\ \E sid \in DOMAIN istlStore :
           /\ istlStore[sid].winner = Some(istlStore[sid].player2)
           /\ istlStore[sid].player2 # istlStore[sid].player1
           /\ hub[Len(hub)] = HubEnd(sid, FALSE)

(***************************************************************************)
(* card-rpg: cards and turns                                               *)
(***************************************************************************)
\* C29: for every id in 0..39 from_id succeeds with suit = id / 10 in 0..3
\* and rank = (id % 10) + 1 in 1..10, and to_id gives the id back; for
\* every id >= 40 from_id fails with InvalidCard.
C29_CardIdRoundTrip ==
    ret.fn = "from_id" =>
        LET card_id == ret.val.card_id
            card == ret.val.card
        IN  /\ card_id \in 0..39 =>
                  /\ ret.err = "Ok"
                  /\ card.suit = card_id \div 10
                  /\ card.suit \in 0..3
                  /\ card.rank = (card_id % 10) + 1
                  /\ card.rank \in 1..10
                  /\ ret.val.to_id = card_id
            /\ card_id >= 40 => ret.err = "InvalidCard"

\* the last card of the deck: suit 3, rank 10
C29_Witness ==
    /\ ret.fn = "from_id"
    /\ ret.err = "Ok"
    /\ ret.val.card_id = 39
    /\ ret.val.card.suit = 3
    /\ ret.val.card.rank = 10
    /\ ret.val.to_id = 39

\* the fields of the player whose turn it is, and of the opponent
OwnBusts(g) == IF g.active_player = g.player1 THEN g.p1_busts ELSE g.p2_busts
OppBusts(g) == IF g.active_player = g.player1 THEN g.p2_busts ELSE g.p1_busts
OwnDrawn(g) ==
    IF g.active_player = g.player1 THEN g.p1_cards_drawn ELSE g.p2_cards_drawn
OtherPlayer(g) ==
    IF g.active_player = g.player1 THEN g.player2 ELSE g.player1

\* C30: draw_card by the active player in Playing, with a card of the
\* deck and a proof.  A bust that leaves the bust counter below MAX_BUSTS
\* zeroes turn_score, turn_suits_mask and turn_cards, adds one to the
\* active player's bust counter and leaves the opponent's and both banked
\* scores unchanged, and ends the turn: active_player becomes the other
\* player and turn_number grows by one.  A safe draw adds the card's rank
\* to turn_score, stores the new suit mask and keeps the active player.
C30_BustAndSafeDraw ==
    \A sid \in DOMAIN cardStore :
        LET g == cardStore[sid]
        IN  (g.phase = "Playing" /\ OwnDrawn(g) < DECK_SIZE) =>
              \A c \in {0, 9, 25, 39}, m \in {0, 1, 5} :
                  LET bust == draw_card(g, g.active_player, c, 64, TRUE, m)
                      safe == draw_card(g, g.active_player, c, 64, FALSE, m)
                  IN  /\ OwnBusts(g) + 1 < MAX_BUSTS =>
                            /\ bust.err = "Ok"
                            /\ bust.hub = <<>>
                            /\ bust.st.turn_score = 0
                            /\ bust.st.turn_suits_mask = 0
                            /\ bust.st.turn_cards = <<>>
                            /\ bust.st.active_player = OtherPlayer(g)
                            /\ bust.st.active_player # g.active_player
                            /\ OppBusts(bust.st) = OwnBusts(g) + 1
                            /\ OwnBusts(bust.st) = OppBusts(g)
                            /\ bust.st.p1_score = g.p1_score
                            /\ bust.st.p2_score = g.p2_score
                            /\ bust.st.turn_number = g.turn_number + 1
                            /\ bust.st.phase = "Playing"
                      /\ safe.err = "Ok"
                      /\ safe.hub = <<>>
                      /\ safe.st.turn_score = g.turn_score + (c % 10) + 1
                      /\ safe.st.turn_suits_mask = m
                      /\ safe.st.turn_cards = Append(g.turn_cards, c)
                      /\ safe.st.active_player = g.active_player
                      /\ safe.st.turn_number = g.turn_number
                      /\ safe.st.p1_busts = g.p1_busts
                      /\ safe.st.p2_busts = g.p2_busts

\* a bust has ended the first turn: the turn is cleared, one bust is
\* counted and turn 2 has begun
C30_Witness ==
    /\ ret = [fn |-> "draw_card", err |-> "Ok"]
    /\ \E sid \in DOMAIN cardStore :
           LET g == cardStore[sid]
           IN  /\ g.phase = "Playing"
               /\ g.turn_score = 0
               /\ g.turn_cards = <<>>
               /\ g.turn_number = 2
               /\ g.p1_busts + g.p2_busts = 1
               /\ g.p1_score = 0
               /\ g.p2_score = 0

\* C31: no bust counter exceeds MAX_BUSTS, and the bust that brings the
\* active player's counter to MAX_BUSTS moves the session to Finished in
\* that call and tells the hub that the opponent won (player1_won is
\* false when player 1 busted out, true when player 2 did), whatever the
\* banked scores are.
C31_BustThreshold ==
    \A sid \in DOMAIN cardStore :
        LET g == cardStore[sid]
        IN  /\ g.p1_busts <= MAX_BUSTS
            /\ g.p2_busts <= MAX_BUSTS
            /\ (/\ g.phase = "Playing"
                /\ OwnDrawn(g) < DECK_SIZE
                /\ OwnBusts(g) + 1 >= MAX_BUSTS) =>
                  \A c \in {0, 9, 25, 39}, m \in {0, 1, 5} :
                      LET bust == draw_card(g, g.active_player, c, 64, TRUE, m)
                      IN  /\ bust.err = "Ok"
                          /\ bust.st.phase = "Finished"
                          /\ OwnBusts(bust.st) = MAX_BUSTS
                          /\ bust.st.p1_score = g.p1_score
                          /\ bust.st.p2_score = g.p2_score
                          /\ bust.hub =
                                 <<HubEnd(sid, g.active_player # g.player1)>>

\* player 2 has busted out with nothing banked by anybody: player 1 won
C31_Witness ==
    /\ ret = [fn |-> "draw_card", err |-> "Ok"]
    /\ \E sid \in DOMAIN cardStore :
           LET g == cardStore[sid]
           IN  /\ g.phase = "Finished"
               /\ g.p2_busts = MAX_BUSTS
               /\ g.p1_score = 0
               /\ g.p2_score = 0
               /\ hub[Len(hub)] = HubEnd(sid, TRUE)

OwnScore(g) == IF g.active_player = g.player1 THEN g.p1_score ELSE g.p2_score
OppScore(g) == IF g.active_player = g.player1 THEN g.p2_score ELSE g.p1_score

\* C32: bank_cards by the active player in Playing adds turn_score to the
\* active player's banked score only and clears the turn.  If the banked
\* score is then at least WIN_SCORE the session is Finished in that call,
\* the hub is told that the banking player won, and neither active_player
\* nor turn_number changes; otherwise the turn passes to the opponent.
C32_BankCards ==
    \A sid \in DOMAIN cardStore :
        LET g == cardStore[sid]
            r == bank_cards(g, g.active_player)
            banked == OwnScore(g) + g.turn_score
        IN  g.phase = "Playing" =>
              /\ r.err = "Ok"
              /\ r.st.turn_cards = <<>>
              /\ r.st.turn_suits_mask = 0
              /\ r.st.turn_score = 0
              /\ r.st.p1_score =
                     IF g.active_player = g.player1 THEN banked ELSE g.p1_score
              /\ r.st.p2_score =
                     IF g.active_player = g.player1 THEN g.p2_score ELSE banked
              /\ IF banked >= WIN_SCORE
                 THEN /\ r.st.phase = "Finished"
                      /\ r.st.active_player = g.active_player
                      /\ r.st.turn_number = g.turn_number
                      /\ r.hub = <<HubEnd(sid, g.active_player = g.player1)>>
                 ELSE /\ r.st.phase = "Playing"
                      /\ r.st.active_player = OtherPlayer(g)
                      /\ r.st.turn_number = g.turn_number + 1
                      /\ r.hub = <<>>

\* player 2 banked a rank-10 card on top of 50 points and won
C32_Witness ==
    /\ ret = [fn |-> "bank_cards", err |-> "Ok"]
    /\ \E sid \in DOMAIN cardStore :
           LET g == cardStore[sid]
           IN  /\ g.phase = "Finished"
               /\ g.p2_score = WIN_SCORE
               /\ g.active_player = g.player2
               /\ g.turn_score = 0
               /\ hub[Len(hub)] = HubEnd(sid, FALSE)

(***************************************************************************)
(* Sessions and settlement                                                 *)
(***************************************************************************)
\* every stored session has two distinct players
DistinctPlayers ==
    /\ \A sid \in DOMAIN cardStore :
          cardStore[sid].player1 # cardStore[sid].player2
    /\ \A sid \in DOMAIN pokerStore :
          pokerStore[sid].player1 # pokerStore[sid].player2

\* start_game with the same player twice is refused and calls nobody
SelfPlayRefused ==
    \A sid \in SessionIds, p \in Addresses :
        /\ \A pts1 \in BuyIns, pts2 \in BuyIns :
              LET r == poker_start_game(sid, p, p, pts1, pts2)
              IN  r.err = "NotPlayer" /\ r.hub = <<>>
        /\ \A d1 \in DeckRoots, d2 \in DeckRoots :
              LET r == card_start_game(sid, p, p, d1, d2)
              IN  r.err = "InvalidMove" /\ r.hub = <<>>

\* C33: start_game with player1 = player2 fails (NotPlayer in pocker,
\* InvalidMove in card-rpg); a start_game that fails stores no record and
\* does not call the hub; every stored session has two distinct players.
C33_NoSelfPlay ==
    /\ [](DistinctPlayers /\ SelfPlayRefused)
    /\ [][(ret'.fn = "start_game" /\ ret'.err # "Ok") =>
            /\ cardStore' = cardStore
            /\ pokerStore' = pokerStore
            /\ hub' = hub]_vars

\* a refused self-play on the constructed contract: no session, no hub call
C33_Witness ==
    /\ ret = [fn |-> "start_game", err |-> "NotPlayer"]
    /\ pokerStore = <<>>
    /\ hub = <<>>

EndCalls(h, sid) ==
    {i \in DOMAIN h : h[i].fn = "end_game" /\ h[i].session_id = sid}

\* the stored session sid is in its terminal phase
Terminal(cs, ps, sid) ==
    \/ sid \in DOMAIN cs /\ cs[sid].phase = "Finished"
    \/ sid \in DOMAIN ps /\ ps[sid].phase = "Complete"

\* a step that reports a settlement is the step that moves the session from
\* in play to its terminal phase, and reports it once
EndOnlyAtTerminal ==
    \A sid \in SessionIds :
        EndCalls(hub', sid) # EndCalls(hub, sid) =>
            /\ Cardinality(EndCalls(hub', sid)) = Cardinality(EndCalls(hub, sid)) + 1
            /\ ~Terminal(cardStore, pokerStore, sid)
            /\ Terminal(cardStore', pokerStore', sid)

\* C35: the hub's end_game is invoked for a session only in the call that
\* moves it to the terminal phase (poker fold or accepted reveal_winner,
\* card game finalize), never while the session is in play, and never a
\* second time for the same session id.
C35_SettledOnceAtTerminal ==
    /\ [](\A sid \in SessionIds : Cardinality(EndCalls(hub, sid)) <= 1)
    /\ [][EndOnlyAtTerminal]_vars

\* the part of C35 that the contracts keep: settlement only in the step
\* into the terminal phase
C35_AtTerminalOnly == [][EndOnlyAtTerminal]_vars

\* C36: bytes_to_u32 decodes a public signal to its integer value: for
\* every value encoded as a 32-byte big-endian field element it returns
\* that value.
C36_DecodesFieldElement ==
    (ret.fn = "bytes_to_u32" /\ Len(ret.val.bytes) = 32) =>
        ret.val.decoded = ret.val.value

\* both players have stored a position commitment, and public signal 0 or 1
\* of a shot differs from the one of the shooter or of the target
ShotMismatch(game, shooter, ps) ==
    LET own == IF shooter = game.player1 THEN game.player1_state
               ELSE game.player2_state
        other == IF shooter = game.player1 THEN game.player2_state
                 ELSE game.player1_state
    IN  /\ own.position_commitment.is_some
        /\ other.position_commitment.is_some
        /\ \/ own.position_commitment.v # ps[1]
           \/ other.position_commitment.v # ps[2]

\* C37: a shot whose public signal 0 or 1 differs from the stored position
\* commitment of the shooter or target fails, and the turn counter and
\* last_actor are left unchanged.
C37_ShootCrossChecks ==
    \A sid \in DOMAIN istlStore, shooter \in Addresses,
       proof \in IstlProofs, ps \in ShootSignals :
        LET game == istlStore[sid]
            r == shoot(game, istlVks, shooter, proof, ps)
        IN  (Len(ps) >= 2 /\ ShotMismatch(game, shooter, ps)) =>
                /\ r.err # "Ok"
                /\ r.st.current_turn = game.current_turn
                /\ r.st.last_actor = game.last_actor

\* both stacks, both bets, the pot and last_raise_amount of a record
ChipCounts(g) ==
    {g.player1_stack, g.player2_stack, g.player1_bet, g.player2_bet,
     g.pot, g.last_raise_amount}

RECURSIVE RankSum(_)
RankSum(cards) ==
    IF cards = <<>> THEN 0
    ELSE value(from_id(Head(cards))) + RankSum(Tail(cards))

\* some banked score has reached WIN_SCORE or some bust counter MAX_BUSTS
GameOver(g) ==
    \/ g.p1_score >= WIN_SCORE \/ g.p2_score >= WIN_SCORE
    \/ g.p1_busts >= MAX_BUSTS \/ g.p2_busts >= MAX_BUSTS

\* C39: a stored card game is in phase Finished if and only if a banked
\* score is >= 60 or a bust counter is >= 3; while it is in Playing both
\* scores are below 60, both bust counters below 3, turn_score is the sum
\* of the ranks of the cards in turn_cards, and each cards-drawn counter
\* is at most 40.
C39_EndCondition ==
    \A sid \in DOMAIN cardStore :
        LET g == cardStore[sid]
        IN  /\ g.phase = "Finished" <=> GameOver(g)
            /\ g.phase = "Playing" =>
                  /\ g.p1_score < WIN_SCORE /\ g.p2_score < WIN_SCORE
                  /\ g.p1_busts < MAX_BUSTS /\ g.p2_busts < MAX_BUSTS
                  /\ g.turn_score = RankSum(g.turn_cards)
                  /\ g.p1_cards_drawn <= DECK_SIZE
                  /\ g.p2_cards_drawn <= DECK_SIZE

\* bob, two busts and 39 cards behind him, drew his last card and banked
\* it; alice is in play on a turn of three cards worth 12
C39_Witness ==
    /\ cardStore[1].phase = "Playing"
    /\ cardStore[1].active_player = "alice"
    /\ cardStore[1].turn_cards = <<0, 9, 0>>
    /\ cardStore[1].turn_score = 12
    /\ cardStore[1].p2_busts = MAX_BUSTS - 1
    /\ cardStore[1].p2_cards_drawn = DECK_SIZE

\* C40: an accepted collect_item never lowers the collector's health: a
\* health pack (type 0) leaves min(old + 25, 100), which is >= old; a
\* shield (type 3) adds exactly 50; ammo and weapon items (types 1, 2)
\* leave health unchanged.
C40_ItemsNeverLowerHealth ==
    \A sid \in DOMAIN istlStore, player \in {"alice", "bob"},
       proof \in IstlProofs, ps \in ItemSignals :
        LET game == istlStore[sid]
            r == collect_item(game, istlVks, player, proof, ps)
            item_type == bytes_to_u32(ps[2])
            old == IF player = game.player1 THEN game.player1_state.health
                   ELSE game.player2_state.health
            new == IF player = game.player1 THEN r.st.player1_state.health
                   ELSE r.st.player2_state.health
        IN  r.err = "Ok" =>
              /\ new >= old
              /\ item_type = 0 => new = Min(old + 25, 100)
              /\ item_type = 3 => new = old + 50
              /\ item_type \in {1, 2} => new = old

====
